---- MODULE Spec2Model ----
(***************************************************************************)
(* Model of programmer/fabricSerialProgrammer/program.py: the framed,      *)
(* checksummed serial protocol of the PicoFabric programmer (frame codec,  *)
(* command/response model, USB serial transport session).                  *)
(*                                                                         *)
(* Bytes are integers 0..255, byte strings are sequences of bytes.         *)
(* A Python exception is a result record whose kind names the exception.   *)
(***************************************************************************)
EXTENDS Integers, Sequences, FiniteSets, TLC

VARIABLES
    \* ---- frame codec harness (writeBlock / readBlock on one channel) ----
    payload,    \* the data handed to writeBlock (packed)
    wire,       \* the bytes on the channel: what ser.write() put there (packed)
    wres,       \* outcome of writeBlock: "none" | "ok" | "MaxPacketSize"
    res,        \* outcome of readBlock (its data packed)
    flip,       \* the corruption applied to the channel: [pos, bit], pos = 0: none
    cut,        \* TRUE when the channel stopped delivering before the frame end
    pc,         \* "init" | "written" | "decoded"
    \* ---- USBSerialTransport session ----
    counter,    \* s.counter
    nsends,     \* number of writeCommand calls made on the session
    serlog,     \* the calls made on s.ser by the last writeCommand, in order
    lastCmd,    \* the command object of the last writeCommand (its block packed)
    lastRc,     \* the responseClass of the last writeCommand
    rx,         \* the bytes the device delivered to the last writeCommand
    ret,        \* outcome of the last writeCommand
    \* ---- FabricTransport operations (queryDevice, programDevice, ...) ----
    uri,        \* s.uri
    call,       \* the operation in progress or last completed, "none" before any
    args,       \* its arguments (bitstreamData packed)
    locals,     \* the local variables i, blockId, blockSz of programDevice
    epc,        \* position in the operation: "idle" | "begin" | "blocks" | "complete" | "done"
    sent,       \* the writeCommand calls of the operation: [cmd, ret, rx], in order
    out,        \* how the operation ended: returned value or exception raised
    hist,       \* the completed operations of the session, in order
    \* ---- FabricService (listDevices, queryDeviceOrGetCached) and its ports ----
    world,      \* the machine: platform, comports(), what is behind each port
    svc,        \* listDevices in progress: its arguments, locals and position
    deviceCache,\* s.deviceCache
    probes,     \* every transport created, in order: uri, timeouts, outcome
    slog,       \* the completed FabricService calls, in order
    tr          \* the transport the caller holds, NoTransport before it is created

codecVars == <<payload, wire, wres, res, flip, cut, pc>>
sessionVars == <<counter, nsends, serlog, lastCmd, lastRc, rx, ret>>
engineVars == <<uri, call, args, locals, epc, sent, out, hist>>
serviceVars == <<world, svc, deviceCache, probes, slog, tr>>
vars == <<payload, wire, wres, res, flip, cut, pc,
          counter, nsends, serlog, lastCmd, lastRc, rx, ret,
          uri, call, args, locals, epc, sent, out, hist,
          world, svc, deviceCache, probes, slog, tr>>

----------------------------------------------------------------------------
(* Bounds of the model *)

\* longest payload enumerated byte by byte
MaxLen == 3
\* number of writeCommand calls followed on one session (beyond one counter wrap)
MaxSends == 258
\* number of writeCommand calls followed with every request and every answer
MaxCalls == 2
\* longest byte stream enumerated that no writeBlock produced
MaxRaw == 5

\* byte values the enumerated payloads are made of
ByteValues == {0, 1, 42, 255}

----------------------------------------------------------------------------
(* Program constants *)

HeaderMagic == 27
MaxWriteBlockSize == 65535 - 16

Echo == 0
QueryDevice == 1
ProgramDevice == 2
ProgramBlock == 3
ProgramComplete == 4
QueryBitstreamFlashCmd == 5
ProgramBitstreamFromFlash == 6
ClearBitstreamFlashCmd == 7
RebootProgrammerCmd == 8
UnkownCmd == 255

----------------------------------------------------------------------------
(* FEncoding *)

Pow2(k) == 2 ^ k

\* (data[offset+0] << 0) | (data[offset+1] << 8); offset is the 1-based index
decodeInt16(data, offset) == data[offset] + 256 * data[offset + 1]

\* (data[o] << 0) | (data[o+1] << 8) | (data[o+2] << 16) | (data[o+3] << 24)
getInt32(data, offset) ==
    data[offset] + 256 * data[offset + 1] + 65536 * data[offset + 2]
        + 16777216 * data[offset + 3]

\* mutant of encodeInt16: the high byte is lost
encodeInt16_lowByte(value) == << value % 256, 0 >>

\* bytes([ (value & 0xff) >> 0, (value & 0xff00) >> 8 ])
encodeInt16(value) == << value % 256, (value \div 256) % 256 >>

\* bytes([ value & 0xff, (value & 0xff00) >> 8, (value & 0xff0000) >> 16,
\*         (value & 0xff000000) >> 24 ])
encodeInt32(value) ==
    << value % 256, (value \div 256) % 256, (value \div 65536) % 256,
       (value \div 16777216) % 256 >>

\* the loops "crc = crc + i" over data[lo..hi]; the sum is split in halves so
\* that frames of MaxWriteBlockSize bytes can be summed (addition is associative)
RECURSIVE SumBytes(_, _, _)
SumBytes(data, lo, hi) ==
    IF lo > hi THEN 0
    ELSE IF lo = hi THEN data[lo]
    ELSE LET mid == (lo + hi) \div 2
         IN  SumBytes(data, lo, mid) + SumBytes(data, mid + 1, hi)

----------------------------------------------------------------------------
(* USBSerialTransport.writeBlock / readBlock *)

\* mutant of writeBlock: the length field leaves the crc byte out
writeBlock_lenNoCrc(data) ==
    IF Len(data) >= MaxWriteBlockSize
    THEN [kind |-> "MaxPacketSize", written |-> << >>]
    ELSE [kind |-> "ok",
          written |-> << HeaderMagic >> \o encodeInt16(Len(data))
                      \o data
                      \o << SumBytes(data, 1, Len(data)) % 256 >>]

\* mutant of writeBlock: the size check lets a payload of MaxWriteBlockSize pass
writeBlock_gt(data) ==
    IF Len(data) > MaxWriteBlockSize
    THEN [kind |-> "MaxPacketSize", written |-> << >>]
    ELSE [kind |-> "ok",
          written |-> << HeaderMagic >> \o encodeInt16(Len(data) + 1)
                      \o data
                      \o << SumBytes(data, 1, Len(data)) % 256 >>]

\* writeBlock(ser, data): the outcome and the bytes written to ser, in order
\* (the header in one ser.write, each data byte in its own, then the crc)
writeBlock(data) ==
    IF Len(data) >= MaxWriteBlockSize
    THEN [kind |-> "MaxPacketSize", written |-> << >>]
    ELSE [kind |-> "ok",
          written |-> << HeaderMagic >> \o encodeInt16(Len(data) + 1)
                      \o data
                      \o << SumBytes(data, 1, Len(data)) % 256 >>]

ReadResult(k, d, n) == [kind |-> k, data |-> d, used |-> n]

\* mutant of readBlock: the checksums are compared on their low 7 bits
readBlock_crc7(avail) ==
    IF Len(avail) = 0 THEN ReadResult("None", << >>, 0)
    ELSE IF avail[1] # HeaderMagic THEN ReadResult("AssertionError", << >>, 1)
    ELSE IF Len(avail) < 3 THEN ReadResult("None", << >>, Len(avail))
    ELSE LET sz == decodeInt16(avail, 2)
         IN  IF Len(avail) < 3 + sz THEN ReadResult("None", << >>, Len(avail))
             ELSE IF sz = 0 THEN ReadResult("IndexError", << >>, 3)
             ELSE LET data == SubSeq(avail, 4, 3 + sz)
                      crc == SumBytes(data, 1, sz - 1) % 128
                      expected_crc == data[sz] % 128
                  IN  IF expected_crc # crc
                      THEN ReadResult("CrcFail", << >>, 3 + sz)
                      ELSE ReadResult("ok", SubSeq(data, 1, sz - 1), 3 + sz)

\* mutant of readBlock: the crc is read and stripped but not verified
readBlock_noVerify(avail) ==
    IF Len(avail) = 0 THEN ReadResult("None", << >>, 0)
    ELSE IF avail[1] # HeaderMagic THEN ReadResult("AssertionError", << >>, 1)
    ELSE IF Len(avail) < 3 THEN ReadResult("None", << >>, Len(avail))
    ELSE LET sz == decodeInt16(avail, 2)
         IN  IF Len(avail) < 3 + sz THEN ReadResult("None", << >>, Len(avail))
             ELSE IF sz = 0 THEN ReadResult("IndexError", << >>, 3)
             ELSE ReadResult("ok", SubSeq(avail, 4, 2 + sz), 3 + sz)

\* mutant of readBlock: a frame cut inside its payload is a crc failure
readBlock_shortRaises(avail) ==
    IF Len(avail) = 0 THEN ReadResult("None", << >>, 0)
    ELSE IF avail[1] # HeaderMagic THEN ReadResult("AssertionError", << >>, 1)
    ELSE IF Len(avail) < 3 THEN ReadResult("None", << >>, Len(avail))
    ELSE LET sz == decodeInt16(avail, 2)
         IN  IF Len(avail) < 3 + sz THEN ReadResult("CrcFail", << >>, Len(avail))
             ELSE IF sz = 0 THEN ReadResult("IndexError", << >>, 3)
             ELSE LET data == SubSeq(avail, 4, 3 + sz)
                      crc == SumBytes(data, 1, sz - 1) % 256
                      expected_crc == data[sz] % 256
                  IN  IF expected_crc # crc
                      THEN ReadResult("CrcFail", << >>, 3 + sz)
                      ELSE ReadResult("ok", SubSeq(data, 1, sz - 1), 3 + sz)

\* readBlock(ser), where avail are the bytes ser delivers before its read
\* timeout expires. kind: "ok" (data returned), "None" (timeout),
\* "AssertionError" (bad magic), "CrcFail", "IndexError" (data[-1] of no data)
readBlock(avail) ==
    IF Len(avail) = 0 THEN ReadResult("None", << >>, 0)
    ELSE IF avail[1] # HeaderMagic THEN ReadResult("AssertionError", << >>, 1)
    ELSE IF Len(avail) < 3 THEN ReadResult("None", << >>, Len(avail))
    ELSE LET sz == decodeInt16(avail, 2)
         IN  IF Len(avail) < 3 + sz THEN ReadResult("None", << >>, Len(avail))
             ELSE IF sz = 0 THEN ReadResult("IndexError", << >>, 3)
             ELSE LET data == SubSeq(avail, 4, 3 + sz)
                      crc == SumBytes(data, 1, sz - 1) % 256
                      expected_crc == data[sz] % 256
                  IN  IF expected_crc # crc
                      THEN ReadResult("CrcFail", << >>, 3 + sz)
                      ELSE ReadResult("ok", SubSeq(data, 1, sz - 1), 3 + sz)

----------------------------------------------------------------------------
(* _adduint8 *)

\* mutant of adduint8: the wrapped sum is taken modulo 0xff, nothing subtracted
adduint8_mod255(a, b) == IF a + b > 255 THEN (a + b) % 255 ELSE a + b

\* mutant of adduint8: the sum saturates at 0xff instead of wrapping
adduint8_saturate(a, b) == IF a + b > 255 THEN 255 ELSE a + b

\* _adduint8( a, b ), for a and b in 0..0xff as its assertions require
adduint8(a, b) ==
    LET sum == a + b
    IN  IF sum > 255 THEN (sum % 255) - 1 ELSE sum

----------------------------------------------------------------------------
(* Command / response model *)

\* the command objects as their constructors leave them
FQueryDevicePacket == [name |-> "FQueryDevicePacket", cmd |-> QueryDevice]
FProgramCompletePacket ==
    [name |-> "FProgramCompletePacket", cmd |-> ProgramComplete]
ClearBitstreamFlash == [name |-> "ClearBitstreamFlash", cmd |-> ClearBitstreamFlashCmd]
RebootProgrammer == [name |-> "RebootProgrammer", cmd |-> RebootProgrammerCmd]
QueryBitstreamFlash == [name |-> "QueryBitstreamFlash", cmd |-> QueryBitstreamFlashCmd]
FProgramDevicePacket(save, total, blocks, crc) ==
    [name |-> "FProgramDevicePacket", cmd |-> ProgramDevice,
     saveToFlash |-> save, totalSize |-> total, blockCount |-> blocks,
     bitstreamCrc |-> crc]
FQueryProgramBlock(id, csz, sz, crc, block) ==
    [name |-> "FQueryProgramBlock", cmd |-> ProgramBlock,
     blockId |-> id, compressedBlockSz |-> csz, blockSz |-> sz,
     blockCrc |-> crc, bitStreamBlock |-> block]

\* mutant of FProgramDevicePacket.toBytes: the integers are written big-endian
ProgramDevice_toBytes_bigEndian(c) ==
    LET rev4(b) == << b[4], b[3], b[2], b[1] >>
        rev2(b) == << b[2], b[1] >>
    IN  << c.saveToFlash >> \o rev4(encodeInt32(c.totalSize))
            \o rev4(encodeInt32(c.blockCount)) \o rev2(encodeInt16(c.bitstreamCrc))

\* FProgramDevicePacket.toBytes
ProgramDevice_toBytes(c) ==
    << c.saveToFlash >> \o encodeInt32(c.totalSize) \o encodeInt32(c.blockCount)
        \o encodeInt16(c.bitstreamCrc)

\* FQueryProgramBlock.toBytes
ProgramBlock_toBytes(c) ==
    encodeInt16(c.blockId) \o encodeInt16(c.compressedBlockSz)
        \o encodeInt16(c.blockSz) \o << c.blockCrc >> \o c.bitStreamBlock

\* cmd.toBytes(), by the class of cmd
toBytes(c) ==
    CASE c.name = "FQueryDevicePacket" -> << 0 >>
      [] c.name = "FProgramDevicePacket" -> ProgramDevice_toBytes(c)
      [] c.name = "FQueryProgramBlock" -> ProgramBlock_toBytes(c)
      [] OTHER -> << >>

\* mutant of fromBytes: bytes missing at the end of data are read as 0
fromBytes_padded(rc, data) ==
    LET d == data \o [k \in 1..17 |-> 0]
    IN  CASE rc = "FGeneric_Response" ->
                [kind |-> "response", errorCode |-> getInt32(d, 1)]
          [] rc = "FQueryDevicePacket_Response" ->
                [kind |-> "response",
                 deviceState |-> d[1],
                 fpgaDeviceId |-> getInt32(d, 2),
                 progDeviceId |-> SubSeq(d, 6, 13)]
          [] rc = "QueryBitstreamFlash_Response" ->
                [kind |-> "response",
                 errorCode |-> getInt32(d, 1),
                 programOnStartup |-> getInt32(d, 5),
                 blockCnt |-> getInt32(d, 9),
                 bitStreamSz |-> getInt32(d, 13),
                 crc |-> d[17]]
          [] OTHER -> [kind |-> "response"]

\* responseCmd.fromBytes( data ), by the response class: the fields parsed, or
\* the IndexError of reading past the end of data
fromBytes(rc, data) ==
    CASE rc = "FGeneric_Response" ->
            IF Len(data) < 4 THEN [kind |-> "IndexError"]
            ELSE [kind |-> "response", errorCode |-> getInt32(data, 1)]
      [] rc = "FQueryDevicePacket_Response" ->
            IF Len(data) < 13 THEN [kind |-> "IndexError"]
            ELSE [kind |-> "response",
                  deviceState |-> data[1],
                  fpgaDeviceId |-> getInt32(data, 2),
                  progDeviceId |-> SubSeq(data, 6, 13)]
      [] rc = "QueryBitstreamFlash_Response" ->
            IF Len(data) < 17 THEN [kind |-> "IndexError"]
            ELSE [kind |-> "response",
                  errorCode |-> getInt32(data, 1),
                  programOnStartup |-> getInt32(data, 5),
                  blockCnt |-> getInt32(data, 9),
                  bitStreamSz |-> getInt32(data, 13),
                  crc |-> data[17]]
      [] OTHER -> [kind |-> "response"]

----------------------------------------------------------------------------
(* USBSerialTransport.readPacket / readCommand / writeCommand *)

\* readPacket(): (cmd, counter, data) of the block read, (None, None, None)
\* when there is none or it has fewer than 2 bytes; an exception of readBlock
\* passes through
readPacket(avail) ==
    LET b == readBlock(avail)
    IN  IF b.kind \in {"AssertionError", "CrcFail", "IndexError"}
        THEN [kind |-> b.kind, used |-> b.used]
        ELSE IF b.kind = "ok" /\ Len(b.data) >= 2
        THEN [kind |-> "packet", used |-> b.used, rcmd |-> b.data[1],
              rcnt |-> b.data[2], rdata |-> SubSeq(b.data, 3, Len(b.data))]
        ELSE [kind |-> "nopacket", used |-> b.used]

\* mutant of readCommand: a missing packet is answered with an unparsed response
readCommand_noRaise(rc, avail) ==
    LET p == readPacket(avail)
    IN  IF p.kind \in {"AssertionError", "CrcFail", "IndexError"}
        THEN [ret |-> [kind |-> p.kind], used |-> p.used]
        ELSE IF p.kind = "nopacket" \/ Len(p.rdata) = 0
        THEN [ret |-> [kind |-> "response", class |-> rc], used |-> p.used]
        ELSE LET f == fromBytes(rc, p.rdata)
             IN  IF f.kind = "IndexError"
                 THEN [ret |-> f, used |-> p.used]
                 ELSE [ret |-> [class |-> rc, cmd |-> p.rcmd, counter |-> p.rcnt] @@ f,
                       used |-> p.used]

\* mutant of readCommand: a packet with an empty body is parsed
readCommand_emptyBody(rc, avail) ==
    LET p == readPacket(avail)
    IN  IF p.kind \in {"AssertionError", "CrcFail", "IndexError"}
        THEN [ret |-> [kind |-> p.kind], used |-> p.used]
        ELSE IF p.kind = "nopacket"
        THEN [ret |-> [kind |-> "NoResponse"], used |-> p.used]
        ELSE LET f == fromBytes(rc, p.rdata)
             IN  IF f.kind = "IndexError"
                 THEN [ret |-> f, used |-> p.used]
                 ELSE [ret |-> [class |-> rc, cmd |-> p.rcmd, counter |-> p.rcnt] @@ f,
                       used |-> p.used]

\* readCommand( responseClass ): the response object, or the exception raised
readCommand(rc, avail) ==
    LET p == readPacket(avail)
    IN  IF p.kind \in {"AssertionError", "CrcFail", "IndexError"}
        THEN [ret |-> [kind |-> p.kind], used |-> p.used]
        ELSE IF p.kind = "nopacket" \/ Len(p.rdata) = 0
        THEN [ret |-> [kind |-> "NoResponse"], used |-> p.used]
        ELSE LET f == fromBytes(rc, p.rdata)
             IN  IF f.kind = "IndexError"
                 THEN [ret |-> f, used |-> p.used]
                 ELSE [ret |-> [class |-> rc, cmd |-> p.rcmd, counter |-> p.rcnt] @@ f,
                       used |-> p.used]

SerFlushInput == [op |-> "flushInput"]
SerFlushOutput == [op |-> "flushOutput"]
SerWrite(bytes) == [op |-> "write", data |-> bytes]
SerRead(n) == [op |-> "read", used |-> n]

\* mutant of writeCommand: the packet carries the counter before the increment
writeCommand_oldCounter(cnt, cmd, rc, avail) ==
    LET c == adduint8(cnt, 1)
        packet == << cmd.cmd, cnt >> \o toBytes(cmd)
        w == writeBlock(packet)
        flushed == << SerFlushInput, SerFlushOutput >>
    IN  IF w.kind # "ok"
        THEN [counter |-> c, log |-> flushed, ret |-> [kind |-> w.kind]]
        ELSE IF rc = "None"
        THEN [counter |-> c, log |-> flushed \o << SerWrite(w.written) >>,
              ret |-> [kind |-> "None"]]
        ELSE LET r == readCommand(rc, avail)
             IN  [counter |-> c,
                  log |-> flushed \o << SerWrite(w.written), SerRead(r.used) >>,
                  ret |-> r.ret]

\* mutant of writeCommand: a response that does not echo the opcode and the
\* counter of the request is refused
writeCommand_correlated(cnt, cmd, rc, avail) ==
    LET c == adduint8(cnt, 1)
        packet == << cmd.cmd, c >> \o toBytes(cmd)
        w == writeBlock(packet)
        flushed == << SerFlushInput, SerFlushOutput >>
    IN  IF w.kind # "ok"
        THEN [counter |-> c, log |-> flushed, ret |-> [kind |-> w.kind]]
        ELSE IF rc = "None"
        THEN [counter |-> c, log |-> flushed \o << SerWrite(w.written) >>,
              ret |-> [kind |-> "None"]]
        ELSE LET r == readCommand(rc, avail)
             IN  [counter |-> c,
                  log |-> flushed \o << SerWrite(w.written), SerRead(r.used) >>,
                  ret |-> IF r.ret.kind = "response"
                             /\ (r.ret.cmd # cmd.cmd \/ r.ret.counter # c)
                          THEN [kind |-> "Mismatch"]
                          ELSE r.ret]

\* mutant of writeCommand: a call that fails leaves the counter as it was
writeCommand_rollback(cnt, cmd, rc, avail) ==
    LET c == adduint8(cnt, 1)
        packet == << cmd.cmd, c >> \o toBytes(cmd)
        w == writeBlock(packet)
        flushed == << SerFlushInput, SerFlushOutput >>
    IN  IF w.kind # "ok"
        THEN [counter |-> cnt, log |-> flushed, ret |-> [kind |-> w.kind]]
        ELSE IF rc = "None"
        THEN [counter |-> c, log |-> flushed \o << SerWrite(w.written) >>,
              ret |-> [kind |-> "None"]]
        ELSE LET r == readCommand(rc, avail)
             IN  [counter |-> IF r.ret.kind = "response" THEN c ELSE cnt,
                  log |-> flushed \o << SerWrite(w.written), SerRead(r.used) >>,
                  ret |-> r.ret]

\* writeCommand( cmd, responseClass ) on a session whose counter is cnt, with
\* avail the bytes the device delivers after the request: the new counter, the
\* calls made on s.ser in order, and the value returned or exception raised
writeCommand(cnt, cmd, rc, avail) ==
    LET c == adduint8(cnt, 1)
        packet == << cmd.cmd, c >> \o toBytes(cmd)
        w == writeBlock(packet)
        flushed == << SerFlushInput, SerFlushOutput >>
    IN  IF w.kind # "ok"
        THEN [counter |-> c, log |-> flushed, ret |-> [kind |-> w.kind]]
        ELSE IF rc = "None"
        THEN [counter |-> c, log |-> flushed \o << SerWrite(w.written) >>,
              ret |-> [kind |-> "None"]]
        ELSE LET r == readCommand(rc, avail)
             IN  [counter |-> c,
                  log |-> flushed \o << SerWrite(w.written), SerRead(r.used) >>,
                  ret |-> r.ret]

----------------------------------------------------------------------------
(* Frame codec harness: one payload is written with writeBlock, the channel *)
(* may corrupt or cut the byte stream, and readBlock reads it back.         *)

Min(a, b) == IF a < b THEN a ELSE b

\* The harness keeps byte strings run-length packed in its variables, as a
\* sequence of runs [byte, count] with no two neighbours of the same byte:
\* Unpack(Pack(s)) = s, and two byte strings are equal exactly when their
\* packed forms are. The program's operators always work on the byte strings.
Run(b, n) == [byte |-> b, count |-> n]
JoinRuns(a, b) ==
    IF Len(a) = 0 THEN b
    ELSE IF Len(b) = 0 THEN a
    ELSE IF a[Len(a)].byte = b[1].byte
    THEN SubSeq(a, 1, Len(a) - 1)
            \o << Run(b[1].byte, a[Len(a)].count + b[1].count) >>
            \o SubSeq(b, 2, Len(b))
    ELSE a \o b
RECURSIVE PackRange(_, _, _)
PackRange(s, lo, hi) ==
    IF lo > hi THEN << >>
    ELSE IF \A i \in lo..hi : s[i] = s[lo] THEN << Run(s[lo], hi - lo + 1) >>
    ELSE LET mid == (lo + hi) \div 2
         IN  JoinRuns(PackRange(s, lo, mid), PackRange(s, mid + 1, hi))
Pack(s) == PackRange(s, 1, Len(s))
RECURSIVE Unpack(_)
Unpack(runs) ==
    IF Len(runs) = 0 THEN << >>
    ELSE [i \in 1..runs[1].count |-> runs[1].byte] \o Unpack(Tail(runs))

\* payloads enumerated byte by byte, and payloads of 0xff bytes with lengths
\* around MaxWriteBlockSize
LimitLens == {MaxWriteBlockSize - 1, MaxWriteBlockSize, MaxWriteBlockSize + 1}
Payloads ==
    UNION {[1..n -> ByteValues] : n \in 0..MaxLen}
        \cup {[i \in 1..n |-> 255] : n \in LimitLens}

\* byte streams that no writeBlock produced (line noise, a foreign device)
RawBytes == {0, 1, 2, HeaderMagic}
RawStreams == UNION {[1..n -> RawBytes] : n \in 1..MaxRaw}

\* b with bit k inverted
XorBit(b, k) == IF (b \div Pow2(k)) % 2 = 1 THEN b - Pow2(k) ELSE b + Pow2(k)

\* the positions of a stream the harness corrupts: its head and its last byte
FlipPositions(w) ==
    (1..Min(Len(w), MaxLen + 4)) \cup (IF Len(w) > 0 THEN {Len(w)} ELSE {})
\* the lengths the harness cuts a stream to: short prefixes, and all but one byte
CutLengths(w) ==
    (0..Min(Len(w) - 1, MaxLen + 3)) \cup (IF Len(w) > 0 THEN {Len(w) - 1} ELSE {})

NoRead == ReadResult("none", << >>, 0)
NoFlip == [pos |-> 0, bit |-> 0]
NoCmd == [cmd |-> UnkownCmd, name |-> "none"]
NoRet == [kind |-> "none"]

SessionInit ==
    /\ counter = 0
    /\ nsends = 0
    /\ serlog = << >>
    /\ lastCmd = NoCmd
    /\ lastRc = "None"
    /\ rx = << >>
    /\ ret = NoRet

\* no FabricTransport operation was called yet
NoArgs == [name |-> "none"]
NoLocals == [i |-> 0, blockId |-> 0, blockSz |-> 0]
NoOut == [kind |-> "none"]
EngineIdle ==
    /\ uri = "usbserial://COM3"
    /\ call = "none"
    /\ args = NoArgs
    /\ locals = NoLocals
    /\ epc = "idle"
    /\ sent = << >>
    /\ out = NoOut
    /\ hist = << >>

\* no FabricService was used yet
NoWorld == [platform |-> "none"]
NoScan == [pc |-> "idle"]
NoTransport == [kind |-> "None"]
ServiceIdle ==
    /\ world = NoWorld
    /\ svc = NoScan
    /\ deviceCache = << >>
    /\ probes = << >>
    /\ slog = << >>
    /\ tr = NoTransport

CodecIdle ==
    /\ payload = << >>
    /\ wire = << >>
    /\ wres = "none"
    /\ res = NoRead
    /\ flip = NoFlip
    /\ cut = FALSE
    /\ pc = "init"

InitCodec ==
    /\ payload \in {Pack(p) : p \in Payloads}
    /\ wire = << >>
    /\ wres = "none"
    /\ res = NoRead
    /\ flip = NoFlip
    /\ cut = FALSE
    /\ pc = "init"
    /\ SessionInit
    /\ ServiceIdle
    /\ EngineIdle

\* writeBlock( ser, payload )
Encode ==
    /\ pc = "init"
    /\ LET w == writeBlock(Unpack(payload))
       IN  /\ wire' = Pack(w.written)
           /\ wres' = w.kind
    /\ pc' = "written"
    /\ UNCHANGED <<payload, res, flip, cut>>
    /\ UNCHANGED sessionVars
    /\ UNCHANGED engineVars
    /\ UNCHANGED serviceVars

\* the channel carries bytes nobody framed
Noise ==
    /\ pc = "init"
    /\ payload = << >>
    /\ \E s \in RawStreams : wire' = Pack(s)
    /\ wres' = "raw"
    /\ pc' = "written"
    /\ UNCHANGED <<payload, res, flip, cut>>
    /\ UNCHANGED sessionVars
    /\ UNCHANGED engineVars
    /\ UNCHANGED serviceVars

\* one bit of one byte of a written frame is inverted on the channel
FlipBit ==
    /\ pc = "written"
    /\ wres = "ok"
    /\ flip = NoFlip
    /\ ~cut
    /\ LET w == Unpack(wire)
       IN  \E p \in FlipPositions(w), k \in 0..7 :
              /\ wire' = Pack([w EXCEPT ![p] = XorBit(@, k)])
              /\ flip' = [pos |-> p, bit |-> k]
    /\ UNCHANGED <<payload, wres, res, cut, pc>>
    /\ UNCHANGED sessionVars
    /\ UNCHANGED engineVars
    /\ UNCHANGED serviceVars

\* the channel stops delivering a written frame: ser.read() times out after n bytes
Truncate ==
    /\ pc = "written"
    /\ wres = "ok"
    /\ ~cut
    /\ LET w == Unpack(wire)
       IN  \E n \in CutLengths(w) : wire' = Pack(SubSeq(w, 1, n))
    /\ cut' = TRUE
    /\ UNCHANGED <<payload, wres, res, flip, pc>>
    /\ UNCHANGED sessionVars
    /\ UNCHANGED engineVars
    /\ UNCHANGED serviceVars

\* readBlock( ser )
Decode ==
    /\ pc = "written"
    /\ LET r == readBlock(Unpack(wire))
       IN  res' = ReadResult(r.kind, Pack(r.data), r.used)
    /\ pc' = "decoded"
    /\ UNCHANGED <<payload, wire, wres, flip, cut>>
    /\ UNCHANGED sessionVars
    /\ UNCHANGED engineVars
    /\ UNCHANGED serviceVars

NextCodec == Encode \/ Noise \/ FlipBit \/ Truncate \/ Decode

SpecCodec == InitCodec /\ [][NextCodec]_vars

----------------------------------------------------------------------------
(* Transport session harness: writeCommand is called on one session, and   *)
(* the device delivers some byte stream after each request.                *)

\* a command object as the harness keeps it, its bitStreamBlock packed, and back
Stored(c) ==
    IF c.name = "FQueryProgramBlock" THEN [c EXCEPT !.bitStreamBlock = Pack(@)] ELSE c
Loaded(c) ==
    IF c.name = "FQueryProgramBlock" THEN [c EXCEPT !.bitStreamBlock = Unpack(@)] ELSE c

\* a compressed block that makes the packet MaxWriteBlockSize bytes long
\* (2 header bytes, 7 bytes of block fields, the block)
OversizeBlock == [i \in 1..(MaxWriteBlockSize - 9) |-> 0]

\* values of the fields (totalSize, blockCount, bitstreamCrc) of ProgramDevice:
\* the scenario's, and values with every byte of a field different (0x12345678,
\* 0xABCD) or extreme (0x7fffffff is the largest integer the model checker
\* represents)
FieldValues ==
    {<< 100, 1, 0 >>, << 305419896, 2147483647, 43981 >>,
     << 2147483647, 0, 255 >>, << 0, 258, 65535 >>}

ProgramDeviceCmds ==
    {FProgramDevicePacket(s, f[1], f[2], f[3]) : s \in {0, 1}, f \in FieldValues}

ProgramBlockCmds ==
    {FQueryProgramBlock(0, 3, 1, 42, << 0, 1, 42 >>),
     FQueryProgramBlock(258, 2, 4064, 7, << 15, 224 >>),
     FQueryProgramBlock(1, MaxWriteBlockSize - 9, 4064, 0, OversizeBlock)}

\* the (command, responseClass) pairs the engine operations pass to
\* writeCommand, the commands as the harness keeps them
Requests ==
    {<< FQueryDevicePacket, "FQueryDevicePacket_Response" >>,
     << FProgramCompletePacket, "FGeneric_Response" >>,
     << ClearBitstreamFlash, "FGeneric_Response" >>,
     << RebootProgrammer, "None" >>,
     << QueryBitstreamFlash, "QueryBitstreamFlash_Response" >>}
        \cup {<< Stored(c), "FGeneric_Response" >> :
                c \in ProgramDeviceCmds \cup ProgramBlockCmds}

\* the requests of a long run on the counter
CounterRequests ==
    {<< FQueryDevicePacket, "FQueryDevicePacket_Response" >>,
     << RebootProgrammer, "None" >>,
     << Stored(FQueryProgramBlock(1, MaxWriteBlockSize - 9, 4064, 0, OversizeBlock)),
        "FGeneric_Response" >>}

\* response bodies a device sends
GenericBodies == {<< 0, 0, 0, 0 >>, << 1, 0, 0, 0 >>}
QueryBodies ==
    {<< 1, 67, 16, 17, 65, 230, 97, 100, 8, 67, 11, 42, 37 >>,
     << 0, 0, 0, 0, 0, 0, 0, 0, 0, 0, 0, 0, 0 >>}
FlashBodies == {<< 0, 0, 0, 0, 1, 0, 0, 0, 2, 0, 0, 0, 100, 0, 0, 0, 9 >>}
ShortBodies ==
    {<< >>, << 7 >>, << 0, 0, 0 >>,
     << 1, 67, 16, 17, 65, 230, 97, 100, 8, 67, 11, 42 >>,
     << 0, 0, 0, 0, 1, 0, 0, 0, 2, 0, 0, 0, 100, 0, 0, 0 >>}
Bodies == GenericBodies \cup QueryBodies \cup FlashBodies \cup ShortBodies

\* the well-formed frames a device answers a request (op, c) with: the echo
\* of the request's header or the header of an earlier request, and a body
DeviceFrames(op, c) ==
    {writeBlock(h \o b).written : h \in {<< op, c >>, << QueryDevice, 0 >>}, b \in Bodies}

\* what reaches the session after a request: nothing, a well-formed frame,
\* or a frame damaged or cut on the way
BadStreams ==
    {<< >>,                             \* no answer
     << 0 >>,                           \* not the magic byte
     << HeaderMagic >>,                 \* cut in the length
     << HeaderMagic, 5, 0, 1, 1 >>,     \* cut in the payload
     << HeaderMagic, 5, 0, 1, 1, 0, 0 >>,  \* cut before the checksum
     << HeaderMagic, 5, 0, 1, 1, 0, 0, 3 >>,  \* wrong checksum
     << 26, 5, 0, 1, 1, 0, 0, 2 >>,     \* wrong magic
     << HeaderMagic, 0, 0 >>,           \* length 0
     << HeaderMagic, 1, 0, 0 >>,        \* empty payload
     << HeaderMagic, 2, 0, 1, 1 >>}     \* payload of one byte
Replies(op, c) == DeviceFrames(op, c) \cup BadStreams

CounterReplies(op, c) ==
    {<< >>, writeBlock(<< op, c, 0, 0, 0, 0 >>).written}

\* whether the request of writeCommand( cmd ) gets onto the channel
Reaches(cnt, cmd) == writeCommand(cnt, cmd, "None", << >>).ret.kind = "None"

\* a device answers the requests that reach it, and no other; a long run on
\* the counter follows fewer answers
Answers(long, cnt, cmd) ==
    IF ~Reaches(cnt, cmd) THEN {<< >>}
    ELSE IF long THEN CounterReplies(cmd.cmd, adduint8(cnt, 1))
    ELSE Replies(cmd.cmd, adduint8(cnt, 1))

\* s.writeCommand( cmd, responseClass=rc ), the device answering with avail
WriteCommand(Reqs, long, limit) ==
    /\ nsends < limit
    /\ \E rq \in Reqs :
          LET cmd == Loaded(rq[1])
          IN  \E avail \in Answers(long, counter, cmd) :
                 LET r == writeCommand(counter, cmd, rq[2], avail)
                 IN  /\ counter' = r.counter
                     /\ serlog' = r.log
                     /\ ret' = r.ret
                     /\ lastCmd' = rq[1]
                     /\ lastRc' = rq[2]
                     /\ rx' = avail
    /\ nsends' = nsends + 1
    /\ UNCHANGED codecVars
    /\ UNCHANGED engineVars
    /\ UNCHANGED serviceVars

Init ==
    /\ CodecIdle
    /\ SessionInit
    /\ ServiceIdle
    /\ EngineIdle

Next == WriteCommand(Requests, FALSE, MaxCalls)

Spec == Init /\ [][Next]_vars

NextCounter == WriteCommand(CounterRequests, TRUE, MaxSends)

SpecCounter == Init /\ [][NextCounter]_vars

----------------------------------------------------------------------------
(* FabricTransport.programDevice: one action per writeCommand call it makes *)
(* (the begin command, one pass of the block loop, the complete command).   *)

\* number of full blocks of the longest bitstream followed
MaxBlocks == 2

\* blockSz = 4096-32
BlockSize == 4096 - 32

\* mutant of Ceil: the quotient is rounded down
Ceil_floor(a, b) == a \div b

\* math.ceil( a / b ), a >= 0 and b > 0
Ceil(a, b) == (a + b - 1) \div b

\* mutant of compressData: the size header is little-endian
compressData_littleEndian(data, z) ==
    LET sz == Len(data)
    IN  << sz % 256, (sz \div 256) % 256 >> \o z

\* compressData( data ): the size header (sz & 0xff00) >> 8, sz & 0xff, then
\* the stream z that zlib.compress returns for data
compressData(data, z) ==
    LET sz == Len(data)
    IN  << (sz \div 256) % 256, sz % 256 >> \o z

\* streams zlib.compress( data, level=9 ) returns (0x78 0xDA: deflate, best
\* compression); what follows the two header bytes is not interpreted
ZlibStreams == {<< 120, 218, 3 >>, << 120, 218, 99, 0 >>}

\* the exception programDevice raises on a response with errorCode code
DeviceFailed(code) == [kind |-> "raise", exc |-> "DeviceFailed", code |-> code]
\* an exception of writeCommand leaves the operation that called it
Raised(r) == [kind |-> "raise", exc |-> r.kind]
Returns(v) == [kind |-> "return", value |-> v]

\* mutant of programDevice_begin: saveToFlash is always set
programDevice_begin_alwaysSave(data, save) ==
    FProgramDevicePacket(1, Len(data), Ceil(Len(data), BlockSize), 0)

\* the FProgramDevicePacket programDevice( data, saveToFlash=save ) builds
programDevice_begin(data, save) ==
    FProgramDevicePacket(IF save THEN 1 ELSE 0, Len(data),
                         Ceil(Len(data), BlockSize), 0)

\* mutant of programDevice_slice: the slice stops one byte early
programDevice_slice_short(data, loc) ==
    SubSeq(data, loc.i + 1, Min(loc.i + loc.blockSz - 1, Len(data)))

\* block = bitstreamData[ i : i + blockSz ]
programDevice_slice(data, loc) ==
    SubSeq(data, loc.i + 1, Min(loc.i + loc.blockSz, Len(data)))

\* the FQueryProgramBlock one pass of the block loop builds from block, with
\* z the zlib stream of the block
programDevice_block(block, loc, z) ==
    LET blockCrc == SumBytes(block, 1, Len(block)) % 256
        compressedBlock == compressData(block, z)
    IN  FQueryProgramBlock(loc.blockId, Len(compressedBlock), Len(block),
                           blockCrc, compressedBlock)

\* mutant of programDevice_advance: the block id is not advanced
programDevice_advance_sameId(loc) ==
    [loc EXCEPT !.i = loc.i + loc.blockSz]

\* mutant of programDevice_advance: the offset moves one byte less than the block
programDevice_advance_overlap(loc) ==
    [loc EXCEPT !.i = loc.i + loc.blockSz - 1, !.blockId = loc.blockId + 1]

\* i = i + blockSz; blockId = blockId + 1
programDevice_advance(loc) ==
    [loc EXCEPT !.i = loc.i + loc.blockSz, !.blockId = loc.blockId + 1]

\* mutant of programDevice_check: the error code of the response is not looked at
programDevice_check_ignoreCode(r) ==
    IF r.kind # "response" THEN Raised(r) ELSE NoOut

\* mutant of programDevice_check: only the low byte of the error code is looked at
programDevice_check_lowByte(r) ==
    IF r.kind # "response" THEN Raised(r)
    ELSE IF r.errorCode % 256 # 0 THEN DeviceFailed(r.errorCode)
    ELSE NoOut

\* mutant of programDevice_check: a missing response is taken for success
programDevice_check_skipTimeout(r) ==
    IF r.kind = "NoResponse" THEN NoOut
    ELSE IF r.kind # "response" THEN Raised(r)
    ELSE IF r.errorCode # 0 THEN DeviceFailed(r.errorCode)
    ELSE NoOut

\* response = s.writeCommand( cmd, ... ); if response.errorCode != 0: raise ...
\* with r what writeCommand returned or raised: the exception that leaves
\* programDevice, NoOut when it goes on
programDevice_check(r) ==
    IF r.kind # "response" THEN Raised(r)
    ELSE IF r.errorCode # 0 THEN DeviceFailed(r.errorCode)
    ELSE NoOut

\* lengths of the bitstreams followed: around each multiple of the block size
BitstreamLengths ==
    {n \in {k * BlockSize + d : k \in 0..MaxBlocks, d \in {-1, 0, 1}} : n >= 0}
\* the bitstreams, packed: a first byte and bytes of 0xff
Bitstreams ==
    {IF n = 0 THEN << >> ELSE JoinRuns(<< Run(b, 1) >>, << Run(255, n - 1) >>) :
        n \in BitstreamLengths, b \in {1}}

\* the bytes of each bitstream
BitstreamBytes == [b \in Bitstreams |-> Unpack(b)]

\* what reaches the session after a command of programDevice
ProgramBodies == {<< 0, 0, 0, 0 >>, << 1, 0, 0, 0 >>, << 0, 1, 0, 0 >>}
ProgramReplies(opc, c) ==
    {writeBlock(<< opc, c >> \o b).written : b \in ProgramBodies}
        \cup {<< >>,                                    \* no answer
              << 26, 6, 0, opc, c, 0, 0, 0 >>,          \* wrong magic
              << HeaderMagic, 7, 0, opc, c, 0, 0, 0, 0, (opc + c + 1) % 256 >>,
                                                        \* wrong checksum
              << HeaderMagic, 7, 0, opc, c, 0, 0 >>}    \* cut in the payload

\* the session after s.writeCommand( cmd, responseClass=rc ) returned r
Sent(before, cmd, rc, avail, r) ==
    /\ counter' = r.counter
    /\ serlog' = r.log
    /\ ret' = r.ret
    /\ lastCmd' = Stored(cmd)
    /\ lastRc' = rc
    /\ rx' = avail
    /\ nsends' = nsends + 1
    /\ sent' = Append(before, [cmd |-> Stored(cmd), ret |-> r.ret, rx |-> avail])

InitProgram ==
    /\ CodecIdle
    /\ SessionInit
    /\ ServiceIdle
    /\ uri = "usbserial://COM3"
    /\ call = "programDevice"
    /\ args \in {[name |-> "programDevice", bitstreamData |-> b, saveToFlash |-> f] :
                    b \in Bitstreams, f \in BOOLEAN}
    /\ locals = [i |-> 0, blockId |-> 0, blockSz |-> BlockSize]
    /\ epc = "begin"
    /\ sent = << >>
    /\ out = NoOut
    /\ hist = << >>

\* programDevice up to the check of the begin response
ProgramBegin ==
    /\ epc = "begin"
    /\ LET cmd == programDevice_begin(BitstreamBytes[args.bitstreamData], args.saveToFlash)
       IN  \E avail \in ProgramReplies(cmd.cmd, adduint8(counter, 1)) :
              LET r == writeCommand(counter, cmd, "FGeneric_Response", avail)
                  o == programDevice_check(r.ret)
              IN  /\ Sent(sent, cmd, "FGeneric_Response", avail, r)
                  /\ out' = o
                  /\ epc' = IF o = NoOut THEN "blocks" ELSE "done"
    /\ UNCHANGED <<uri, call, args, locals, hist>>
    /\ UNCHANGED codecVars
    /\ UNCHANGED serviceVars

\* one pass of the block loop that sends a block
ProgramBlockStep ==
    /\ epc = "blocks"
    /\ LET block == programDevice_slice(BitstreamBytes[args.bitstreamData], locals)
           loc == [locals EXCEPT !.blockSz = Len(block)]
       IN  /\ Len(block) > 0
           /\ \E z \in ZlibStreams :
                 LET cmd == programDevice_block(block, loc, z)
                 IN  \E avail \in ProgramReplies(cmd.cmd, adduint8(counter, 1)) :
                        LET r == writeCommand(counter, cmd, "FGeneric_Response", avail)
                            o == programDevice_check(r.ret)
                        IN  /\ Sent(sent, cmd, "FGeneric_Response", avail, r)
                            /\ out' = o
                            /\ epc' = IF o = NoOut THEN "blocks" ELSE "done"
                            /\ locals' = IF o = NoOut THEN programDevice_advance(loc)
                                         ELSE loc
    /\ UNCHANGED <<uri, call, args, hist>>
    /\ UNCHANGED codecVars
    /\ UNCHANGED serviceVars

\* the pass of the block loop that finds no block left, and the complete command
ProgramCompleteStep ==
    /\ epc = "blocks"
    /\ Len(programDevice_slice(BitstreamBytes[args.bitstreamData], locals)) = 0
    /\ LET cmd == FProgramCompletePacket
       IN  \E avail \in ProgramReplies(cmd.cmd, adduint8(counter, 1)) :
              LET r == writeCommand(counter, cmd, "FGeneric_Response", avail)
                  o == programDevice_check(r.ret)
              IN  /\ Sent(sent, cmd, "FGeneric_Response", avail, r)
                  /\ out' = IF o = NoOut THEN Returns(TRUE) ELSE o
    /\ epc' = "done"
    /\ UNCHANGED <<uri, call, args, locals, hist>>
    /\ UNCHANGED codecVars
    /\ UNCHANGED serviceVars

NextProgram == ProgramBegin \/ ProgramBlockStep \/ ProgramCompleteStep

SpecProgram == InitProgram /\ [][NextProgram]_vars

----------------------------------------------------------------------------
(* FabricTransport.queryDevice / rebootProgrammer / clearFlash: operations  *)
(* of one writeCommand each, called in any order on one session.            *)

\* number of operations followed on one session
MaxOps == 3

\* DeviceStatus
Unkown == "unkown"
StatusNoResponse == "noresponse"
StatusExistsAndValid == "ok"

\* hex(b)[2:] for a byte b: its hexadecimal digits, no leading zero
HexDigit == [d \in 0..15 |->
               << "0", "1", "2", "3", "4", "5", "6", "7", "8", "9",
                  "a", "b", "c", "d", "e", "f" >>[d + 1]]
hex(b) == IF b < 16 THEN << HexDigit[b] >>
          ELSE << HexDigit[b \div 16], HexDigit[b % 16] >>

RECURSIVE uidOf(_)
\* info.uid = ''; for i in response.progDeviceId: info.uid += hex(i)[2:]
uidOf(ids) == IF Len(ids) = 0 THEN << >> ELSE hex(ids[1]) \o uidOf(Tail(ids))

\* mutant of queryDevice_info: every nonzero deviceState counts as valid
queryDevice_info_nonzero(r, u) ==
    [status |-> IF r.deviceState # 0 THEN StatusExistsAndValid ELSE Unkown,
     fpgaDeviceId |-> r.fpgaDeviceId,
     uri |-> u,
     uid |-> uidOf(r.progDeviceId)]

\* mutant of queryDevice_info: the counter of the response is read in place of
\* its deviceState
queryDevice_info_wrongField(r, u) ==
    [status |-> IF r.counter = 1 THEN StatusExistsAndValid ELSE Unkown,
     fpgaDeviceId |-> r.fpgaDeviceId,
     uri |-> u,
     uid |-> uidOf(r.progDeviceId)]

\* the FabricDeviceInfo queryDevice builds from response r on a session of uri u
queryDevice_info(r, u) ==
    [status |-> IF r.deviceState = 1 THEN StatusExistsAndValid ELSE Unkown,
     fpgaDeviceId |-> r.fpgaDeviceId,
     uri |-> u,
     uid |-> uidOf(r.progDeviceId)]

\* what queryDevice returns or raises, r being the outcome of its writeCommand
\* (a response object is always true in "if response:")
queryDevice(r, u) ==
    IF r.kind # "response" THEN Raised(r) ELSE Returns(queryDevice_info(r, u))

\* mutant of rebootProgrammer: the command waits for a generic response
rebootProgrammer_waits(cnt, avail) ==
    writeCommand(cnt, RebootProgrammer, "FGeneric_Response", avail)

\* s.writeCommand( RebootProgrammer(), responseClass=None )
rebootProgrammer(cnt, avail) ==
    writeCommand(cnt, RebootProgrammer, "None", avail)

\* what clearFlash returns or raises, r being the outcome of its writeCommand
clearFlash(r) ==
    IF r.kind # "response" THEN Raised(r) ELSE Returns(r.errorCode = 0)

Uris == {"usbserial://COM3", "usbserial:///dev/ttyACM0"}

\* what reaches the session after a QueryDevice command: a response that
\* echoes the header or carries another one, or a failed answer
EngineQueryBodies ==
    {<< 1, 67, 16, 17, 65, 230, 97, 100, 8, 67, 11, 42, 37 >>,
     << 0, 0, 0, 0, 0, 0, 0, 0, 0, 0, 0, 0, 0 >>,
     << 2, 1, 0, 0, 0, 230, 97, 100, 132, 3, 11, 42, 37 >>}
QueryReplies(c) ==
    {writeBlock(h \o b).written :
        h \in {<< QueryDevice, c >>, << QueryDevice, 0 >>}, b \in EngineQueryBodies}
        \cup {<< >>,                                        \* no answer
              << HeaderMagic, 15, 0, QueryDevice, c, 1 >>,  \* cut in the payload
              << 26, 3, 0, QueryDevice, c, 27 >>,           \* wrong magic
              << HeaderMagic, 3, 0, QueryDevice, c, (c + 2) % 256 >>}  \* wrong checksum
RebootReplies(c) ==
    {<< >>, writeBlock(<< RebootProgrammerCmd, c, 0, 0, 0, 0 >>).written}
ClearReplies(c) ==
    {<< >>, writeBlock(<< ClearBitstreamFlashCmd, c, 0, 0, 0, 0 >>).written,
     writeBlock(<< ClearBitstreamFlashCmd, c, 3, 0, 0, 0 >>).written}

InitEngine ==
    /\ CodecIdle
    /\ SessionInit
    /\ ServiceIdle
    /\ uri \in Uris
    /\ call = "none"
    /\ args = NoArgs
    /\ locals = NoLocals
    /\ epc = "idle"
    /\ sent = << >>
    /\ out = NoOut
    /\ hist = << >>

\* the operation name of one writeCommand, ended with o, joins the history
Completed(name, o, r, avail) ==
    /\ Len(hist) < MaxOps
    /\ call' = name
    /\ out' = o
    /\ epc' = "done"
    /\ hist' = Append(hist, [call |-> name, counter |-> counter, rx |-> avail,
                             log |-> r.log, out |-> o])
    /\ UNCHANGED <<uri, args, locals>>
    /\ UNCHANGED codecVars
    /\ UNCHANGED serviceVars

\* transport.queryDevice()
QueryDeviceCall ==
    \E avail \in QueryReplies(adduint8(counter, 1)) :
       LET r == writeCommand(counter, FQueryDevicePacket,
                             "FQueryDevicePacket_Response", avail)
       IN  /\ Sent(<< >>, FQueryDevicePacket, "FQueryDevicePacket_Response", avail, r)
           /\ Completed("queryDevice", queryDevice(r.ret, uri), r, avail)

\* transport.rebootProgrammer()
RebootProgrammerCall ==
    \E avail \in RebootReplies(adduint8(counter, 1)) :
       LET r == rebootProgrammer(counter, avail)
       IN  /\ Sent(<< >>, RebootProgrammer, "None", avail, r)
           /\ Completed("rebootProgrammer",
                        IF r.ret.kind = "None" THEN Returns(TRUE) ELSE Raised(r.ret),
                        r, avail)

\* transport.clearFlash()
ClearFlashCall ==
    \E avail \in ClearReplies(adduint8(counter, 1)) :
       LET r == writeCommand(counter, ClearBitstreamFlash, "FGeneric_Response", avail)
       IN  /\ Sent(<< >>, ClearBitstreamFlash, "FGeneric_Response", avail, r)
           /\ Completed("clearFlash", clearFlash(r.ret), r, avail)

NextEngine == QueryDeviceCall \/ RebootProgrammerCall \/ ClearFlashCall

SpecEngine == InitEngine /\ [][NextEngine]_vars

----------------------------------------------------------------------------
(* FabricService: createTransportForUri, queryDevice, addDeviceCache,       *)
(* listDevices, queryDeviceOrGetCached. A string is a sequence of pieces,   *)
(* '+' is \o: the uri of port /dev/ttyACM0 is                               *)
(* << "usbserial", "://", "/dev/ttyACM", "0" >>.                            *)

\* number of ports comports() lists
MaxPorts == 2
\* number of calls followed after discovery
MaxQueries == 2

IGNORE_PORTS == {<< "COM", "1" >>}
PreferredPlatforms == {"Linux", "Darwin"}
PREFERRED_PROBE_PORTS ==
    [p \in PreferredPlatforms |->
        IF p = "Linux" THEN << << "/dev/ttyACM", "*" >> >>
        ELSE << << "/dev/cu.usbmodem", "*" >> >>]
\* timeouts in milliseconds: SERIAL_FAST_TIMEOUT = 0.1, s.timeout = 10
SERIAL_FAST_TIMEOUT == 100
DefaultTimeout == 10000

TransportTypeUSBSerial == "usbserial"

RECURSIVE fnmatch(_, _)
\* fnmatch.fnmatch( name, pat ): '*' stands for any pieces, every other piece
\* for itself
fnmatch(name, pat) ==
    IF Len(pat) = 0 THEN Len(name) = 0
    ELSE IF pat[1] = "*"
    THEN \E k \in 0..Len(name) : fnmatch(SubSeq(name, k + 1, Len(name)), Tail(pat))
    ELSE /\ Len(name) > 0
         /\ name[1] = pat[1]
         /\ fnmatch(Tail(name), Tail(pat))

\* FabricTransport.TransportTypeUSBSerial + '://' + port
UriOf(port) == << TransportTypeUSBSerial, "://" >> \o port
\* proto,port = uri.split('://')
ProtoOf(u) == u[1]
PortOf(u) == SubSeq(u, 3, Len(u))

\* what is behind a port: a device that answers at once, one that answers
\* too late for the fast timeout but within the timeout a session starts
\* with, one that never answers, one whose answers arrive with a wrong
\* checksum or a wrong magic byte, or a port that cannot be opened
Behaviours == {"ok", "late", "silent", "badsum", "badmagic", "closed"}
\* the bytes that reach a session that waits timeout ms for the answer to
\* QueryDevice at counter c
DeviceAnswer(beh, timeout, c) ==
    LET frame == writeBlock(<< QueryDevice, c, 1, 67, 16, 17, 65,
                               230, 97, 100, 8, 67, 11, 42, 37 >>).written
    IN  CASE beh = "ok" -> frame
          [] beh = "late" -> IF timeout >= DefaultTimeout THEN frame ELSE << >>
          [] beh = "badsum" -> [frame EXCEPT ![Len(frame)] = (@ + 1) % 256]
          [] beh = "badmagic" -> [frame EXCEPT ![1] = 26]
          [] OTHER -> << >>

\* USBSerialTransport( 'usbserial', uri, port ) after init() and
\* initTransport(): the session object, its port opened with s.timeout
NewTransport(u) ==
    [kind |-> "transport", uri |-> u, port |-> PortOf(u), counter |-> 0,
     timeout |-> DefaultTimeout, write_timeout |-> DefaultTimeout]

\* createTransportForUri( uri ): the transport, None for another scheme, or
\* the exception of serial.Serial when the port cannot be opened (canOpen)
createTransportForUri(u, canOpen) ==
    IF ProtoOf(u) # TransportTypeUSBSerial THEN NoTransport
    ELSE IF ~canOpen THEN [kind |-> "raise", exc |-> "SerialException"]
    ELSE NewTransport(u)

\* mutant of setFastTimeoutMode: only the read timeout is shortened
setFastTimeoutMode_readOnly(t, isFash) ==
    [t EXCEPT !.timeout = SERIAL_FAST_TIMEOUT]

\* setFastTimeoutMode( isFash ): isFash is not looked at
setFastTimeoutMode(t, isFash) ==
    [t EXCEPT !.timeout = SERIAL_FAST_TIMEOUT,
              !.write_timeout = SERIAL_FAST_TIMEOUT]

NoneObject == [kind |-> "None"]
\* a FabricDeviceInfo object: the class defines no __eq__, so two objects are
\* equal only when they are the same object, which id tells
Object(id, info) == [kind |-> "FabricDeviceInfo", id |-> id, info |-> info]
\* deviceInfo in devices
IsIn(obj, list) == \E j \in 1..Len(list) : list[j].id = obj.id

\* s.writeCommand( FQueryDevicePacket(), responseClass=
\* FQueryDevicePacket_Response ) of a session at counter cnt that waits
\* timeout ms on a port that behaves as beh
SessionQuery(cnt, beh, timeout) ==
    writeCommand(cnt, FQueryDevicePacket, "FQueryDevicePacket_Response",
                 DeviceAnswer(beh, timeout, adduint8(cnt, 1)))
\* the same as a table for the sessions the service opens: their counter is
\* the 0 of init(), their timeout the fast or the initial one
FirstQuery ==
    [cnt \in {0}, beh \in Behaviours,
     timeout \in {SERIAL_FAST_TIMEOUT, DefaultTimeout} |->
        SessionQuery(cnt, beh, timeout)]

\* FabricService.queryDevice( uri, fast ) on a port that behaves as beh and
\* can be opened when canOpen; id names the FabricDeviceInfo it may build.
\* probe is what happened to the port, out what the call returns or raises.
FabricService_queryDevice(u, fast, beh, canOpen, id) ==
    LET t0 == createTransportForUri(u, canOpen)
    IN  IF t0.kind # "transport"
        THEN [probe |-> [uri |-> u, fast |-> fast, opened |-> FALSE,
                         timeout |-> 0, write_timeout |-> 0, log |-> << >>],
              out |-> IF t0.kind = "None" THEN Returns(NoneObject) ELSE t0]
        ELSE LET t1 == IF fast THEN setFastTimeoutMode(t0, TRUE) ELSE t0
                 r == FirstQuery[t1.counter, beh, t1.timeout]
                 q == queryDevice(r.ret, t1.uri)
             IN  [probe |-> [uri |-> u, fast |-> fast, opened |-> TRUE,
                             timeout |-> t1.timeout,
                             write_timeout |-> t1.write_timeout, log |-> r.log],
                  out |-> IF q.kind = "return"
                          THEN Returns(Object(id, q.value)) ELSE q]

\* mutant of addDeviceCache: nothing is stored
addDeviceCache_never(cache, obj) == cache

\* mutant of addDeviceCache: the cache keeps the last device only
addDeviceCache_reset(cache, obj) ==
    IF obj.kind = "None" \/ Len(obj.info.uri) = 0
    THEN cache
    ELSE [u \in {obj.info.uri} |-> obj]

\* addDeviceCache( deviceInfo ): s.deviceCache is a function from uris
addDeviceCache(cache, obj) ==
    IF obj.kind = "None" \/ Len(obj.info.uri) = 0
    THEN cache
    ELSE [u \in DOMAIN cache \cup {obj.info.uri} |->
             IF u = obj.info.uri THEN obj ELSE cache[u]]

RECURSIVE CandidateUris_all(_)
\* mutant of CandidateUris: no port is ignored
CandidateUris_all(ports) ==
    IF Len(ports) = 0 THEN << >>
    ELSE << UriOf(ports[1]) >> \o CandidateUris_all(Tail(ports))

RECURSIVE CandidateUris(_)
\* deviceUris of listDevices, ports being what comports() lists
CandidateUris(ports) ==
    IF Len(ports) = 0 THEN << >>
    ELSE IF ports[1] \in IGNORE_PORTS THEN CandidateUris(Tail(ports))
    ELSE << UriOf(ports[1]) >> \o CandidateUris(Tail(ports))

\* prefList of listDevices
prefList(platform) ==
    IF platform \in DOMAIN PREFERRED_PROBE_PORTS
    THEN PREFERRED_PROBE_PORTS[platform] ELSE << >>
\* isValid of listDevices for uri u
isValid(u, platform) ==
    \E i \in 1..Len(prefList(platform)) :
        fnmatch(u, << TransportTypeUSBSerial, "://" >> \o prefList(platform)[i])

\* the passes of listDevices: the preferred pass, then "for fastMode in
\* [True, False]"
PassPreferred == 1
PassFast == 2
PassSlow == 3
PassEnd == 4

RECURSIVE NextProbe_allPreferred(_, _, _, _)
\* mutant of NextProbe: the preferred pass probes every candidate
NextProbe_allPreferred(pass, k, uris, platform) ==
    IF pass >= PassEnd THEN [pass |-> PassEnd, k |-> 0]
    ELSE IF k + 1 > Len(uris)
    THEN NextProbe_allPreferred(pass + 1, 0, uris, platform)
    ELSE [pass |-> pass, k |-> k + 1]

RECURSIVE NextProbe_loop(_, _, _, _)
\* mutant of NextProbe: after the slow pass the fast pass starts again
NextProbe_loop(pass, k, uris, platform) ==
    IF Len(uris) = 0 THEN [pass |-> PassEnd, k |-> 0]
    ELSE IF pass >= PassEnd THEN [pass |-> PassFast, k |-> 1]
    ELSE IF k + 1 > Len(uris) THEN NextProbe_loop(pass + 1, 0, uris, platform)
    ELSE IF pass = PassPreferred /\ ~isValid(uris[k + 1], platform)
    THEN NextProbe_loop(pass, k + 1, uris, platform)
    ELSE [pass |-> pass, k |-> k + 1]

RECURSIVE NextProbe(_, _, _, _)
\* the first place after candidate k of pass where listDevices calls
\* queryDevice, PassEnd when the loops are over
NextProbe(pass, k, uris, platform) ==
    IF pass >= PassEnd THEN [pass |-> PassEnd, k |-> 0]
    ELSE IF k + 1 > Len(uris) THEN NextProbe(pass + 1, 0, uris, platform)
    ELSE IF pass = PassPreferred /\ ~isValid(uris[k + 1], platform)
    THEN NextProbe(pass, k + 1, uris, platform)
    ELSE [pass |-> pass, k |-> k + 1]

\* returnOnMinCnt: None is << >>, the number n is << n >>
MinCounts == {<< >>, << 1 >>, << 2 >>}
\* mutant of MinCountReached: the count has to be exceeded
MinCountReached_exceeds(m, devices) == Len(m) > 0 /\ Len(devices) > m[1]

\* returnOnMinCnt != None and len(devices) >= returnOnMinCnt
MinCountReached(m, devices) == Len(m) > 0 /\ Len(devices) >= m[1]

Platforms == {"Linux", "Darwin", "Windows"}
PortNames ==
    [p \in Platforms |->
        CASE p = "Linux" -> {<< "/dev/ttyACM", "0" >>, << "/dev/ttyACM", "1" >>,
                             << "/dev/ttyUSB", "0" >>}
          [] p = "Darwin" -> {<< "/dev/cu.usbmodem", "1" >>,
                              << "/dev/cu.Bluetooth" >>}
          [] OTHER -> {<< "COM", "1" >>, << "COM", "3" >>, << "COM", "4" >>}]
\* what comports() may list: at most MaxPorts different ports
PortLists(names) ==
    {l \in UNION {[1..n -> names] : n \in 0..MaxPorts} :
        \A a, b \in 1..Len(l) : a # b => l[a] # l[b]}
WorldsOf(p, l) ==
    {[platform |-> p, ports |-> l, behaviour |-> f] :
        f \in [{l[a] : a \in 1..Len(l)} -> Behaviours]}
Worlds ==
    UNION {WorldsOf(p[1], p[2]) :
              p \in UNION {{q} \X PortLists(PortNames[q]) : q \in Platforms}}

InitDiscovery ==
    /\ CodecIdle
    /\ SessionInit
    /\ EngineIdle
    /\ world \in Worlds
    /\ svc = NoScan
    /\ deviceCache = << >>
    /\ probes = << >>
    /\ slog = << >>
    /\ tr = NoTransport

\* listDevices has returned or raised o
ListDevicesEnds(o) == [svc EXCEPT !.pc = "done", !.out = o]
\* listDevices goes on after candidate svc.k of pass svc.pass
ListDevicesGoesOn(devices) ==
    LET n == NextProbe(svc.pass, svc.k, svc.deviceUris, world.platform)
    IN  IF n.pass = PassEnd
        THEN [svc EXCEPT !.pc = "done", !.devices = devices,
                         !.out = Returns(devices)]
        ELSE [svc EXCEPT !.pass = n.pass, !.k = n.k, !.devices = devices]

\* listDevices( returnOnMinCnt ) up to its first queryDevice
ListDevices ==
    \E m \in MinCounts :
       LET uris == CandidateUris(world.ports)
           n == NextProbe(PassPreferred, 0, uris, world.platform)
       IN  /\ svc.pc = "idle"
           /\ svc' = [pc |-> IF n.pass = PassEnd THEN "done" ELSE "scan",
                      returnOnMinCnt |-> m, deviceUris |-> uris,
                      devices |-> << >>, pass |-> n.pass, k |-> n.k,
                      out |-> IF n.pass = PassEnd THEN Returns(<< >>) ELSE NoOut]
           /\ UNCHANGED <<world, deviceCache, probes, slog, tr>>
           /\ UNCHANGED codecVars
           /\ UNCHANGED sessionVars
           /\ UNCHANGED engineVars

\* one candidate of a pass of listDevices: its queryDevice and what follows
\* it; caught tells whether the call stands in a try/except
ProbeCandidate(caught) ==
    \E q \in {FabricService_queryDevice(
                  svc.deviceUris[svc.k], svc.pass # PassSlow,
                  world.behaviour[PortOf(svc.deviceUris[svc.k])],
                  world.behaviour[PortOf(svc.deviceUris[svc.k])] # "closed",
                  Len(probes) + 1)} :
    LET obj == q.out.value
        devices == IF IsIn(obj, svc.devices) THEN svc.devices
                   ELSE Append(svc.devices, obj)
    IN  /\ svc.pc = "scan"
        /\ probes' = Append(probes, q.probe)
        /\ IF q.out.kind = "raise"
           THEN /\ svc' = IF caught THEN ListDevicesGoesOn(svc.devices)
                          ELSE ListDevicesEnds(q.out)
                /\ UNCHANGED deviceCache
           ELSE IF obj.kind = "None"
           THEN /\ svc' = ListDevicesGoesOn(svc.devices)
                /\ UNCHANGED deviceCache
           ELSE /\ deviceCache' = addDeviceCache(deviceCache, obj)
                /\ svc' = IF MinCountReached(svc.returnOnMinCnt, devices)
                          THEN [ListDevicesEnds(Returns(devices))
                                   EXCEPT !.devices = devices]
                          ELSE ListDevicesGoesOn(devices)
        /\ UNCHANGED <<world, slog, tr>>
        /\ UNCHANGED codecVars
        /\ UNCHANGED sessionVars
        /\ UNCHANGED engineVars

\* a candidate of the preferred pass
ProbePreferred ==
    /\ svc.pc = "scan"
    /\ svc.pass = PassPreferred
    /\ ProbeCandidate(FALSE)

\* a candidate of the pass over all candidates, fast or slow
ProbeExhaustive ==
    /\ svc.pc = "scan"
    /\ svc.pass \in {PassFast, PassSlow}
    /\ ProbeCandidate(TRUE)

NextDiscovery ==
    \/ ListDevices
    \/ ProbePreferred
    \/ ProbeExhaustive

SpecDiscovery == InitDiscovery /\ [][NextDiscovery]_vars

\* a call of listDevices that has begun goes on: every probe ends, with an
\* answer, an exception or the timeout of its reads
SpecDiscoveryFair ==
    /\ InitDiscovery
    /\ [][NextDiscovery]_vars
    /\ WF_vars(ProbePreferred \/ ProbeExhaustive)

----------------------------------------------------------------------------
(* The device cache and the caller's session: queryDeviceOrGetCached,       *)
(* createTransportForUri and setFastTimeoutMode called in any order.        *)

\* the 0 queryDeviceOrGetCached returns when no transport exists for the uri
ZeroObject == [kind |-> "int"]
CachePorts == << << "/dev/ttyACM", "0" >>, << "/dev/ttyUSB", "0" >> >>
\* exclusive tells whether a port that is open cannot be opened once more
CacheWorlds ==
    {[platform |-> "Linux", ports |-> CachePorts, behaviour |-> f,
      exclusive |-> e] :
        f \in [{CachePorts[a] : a \in 1..Len(CachePorts)} -> Behaviours],
        e \in BOOLEAN}
CallUris ==
    {UriOf(CachePorts[a]) : a \in 1..Len(CachePorts)}
        \cup {<< "ip", "://", "10.0.0.2" >>}
BehaviourOf(u) ==
    IF PortOf(u) \in DOMAIN world.behaviour
    THEN world.behaviour[PortOf(u)] ELSE "closed"
\* the caller's session holds the port of u open
HeldByCaller(u) == tr.kind = "transport" /\ tr.port = PortOf(u)

InitCache ==
    /\ CodecIdle
    /\ SessionInit
    /\ EngineIdle
    /\ world \in CacheWorlds
    /\ svc = NoScan
    /\ deviceCache = << >>
    /\ probes = << >>
    /\ slog = << >>
    /\ tr = NoTransport

\* a call of the service or of the session has ended with o
Called(name, u, flag, o) ==
    /\ Len(slog) < MaxQueries
    /\ slog' = Append(slog, [call |-> name, uri |-> u, flag |-> flag,
                             cacheBefore |-> deviceCache,
                             cacheAfter |-> deviceCache',
                             probesBefore |-> Len(probes),
                             probesAfter |-> Len(probes'), out |-> o])
    /\ UNCHANGED <<world, svc>>
    /\ UNCHANGED codecVars
    /\ UNCHANGED sessionVars
    /\ UNCHANGED engineVars

\* what createTransportForUri leaves in the log of opened ports
Opening(u, t) ==
    [uri |-> u, fast |-> FALSE, opened |-> t.kind = "transport",
     timeout |-> IF t.kind = "transport" THEN t.timeout ELSE 0,
     write_timeout |-> IF t.kind = "transport" THEN t.write_timeout ELSE 0,
     log |-> << >>]

\* service.queryDeviceOrGetCached( uri, fastMode ): t is what its
\* createTransportForUri gives, q what its s.queryDevice gives when it is called
QueryDeviceOrGetCached ==
    \E u \in CallUris, fastMode \in BOOLEAN :
       \E t \in {createTransportForUri(u, BehaviourOf(u) # "closed"
                                         /\ ~(world.exclusive /\ HeldByCaller(u)))},
          q \in {FabricService_queryDevice(u, fastMode, BehaviourOf(u),
                                          BehaviourOf(u) # "closed" /\ ~world.exclusive,
                                          Len(probes) + 2)} :
           IF u \in DOMAIN deviceCache
           THEN /\ UNCHANGED <<deviceCache, probes, tr>>
                /\ Called("queryDeviceOrGetCached", u, fastMode,
                          Returns(deviceCache[u]))
           ELSE IF t.kind = "None"
           THEN /\ UNCHANGED <<deviceCache, probes, tr>>
                /\ Called("queryDeviceOrGetCached", u, fastMode,
                          Returns(ZeroObject))
           ELSE IF t.kind = "raise"
           THEN /\ probes' = Append(probes, Opening(u, t))
                /\ UNCHANGED <<deviceCache, tr>>
                /\ Called("queryDeviceOrGetCached", u, fastMode, t)
           ELSE /\ probes' = probes \o << Opening(u, t), q.probe >>
                /\ deviceCache' =
                      IF q.out.kind = "return"
                      THEN addDeviceCache(deviceCache, q.out.value)
                      ELSE deviceCache
                /\ UNCHANGED tr
                /\ Called("queryDeviceOrGetCached", u, fastMode, q.out)

\* transport = FabricTransport.createTransportForUri( uri ) by the caller
CreateTransport ==
    \E u \in CallUris :
       LET t == createTransportForUri(u, BehaviourOf(u) # "closed")
       IN  /\ tr = NoTransport
           /\ tr' = IF t.kind = "transport" THEN t ELSE NoTransport
           /\ probes' = IF t.kind = "None" THEN probes
                        ELSE Append(probes, Opening(u, t))
           /\ UNCHANGED deviceCache
           /\ Called("createTransportForUri", u, FALSE,
                     IF t.kind = "raise" THEN t ELSE Returns(t))

\* transport.setFastTimeoutMode( isFash ) by the caller
SetFastTimeoutMode ==
    \E isFash \in BOOLEAN :
       /\ tr.kind = "transport"
       /\ tr' = setFastTimeoutMode(tr, isFash)
       /\ UNCHANGED <<deviceCache, probes>>
       /\ Called("setFastTimeoutMode", tr.uri, isFash, Returns(NoneObject))

NextCache ==
    \/ QueryDeviceOrGetCached
    \/ CreateTransport
    \/ SetFastTimeoutMode

SpecCache == InitCache /\ [][NextCache]_vars

----------------------------------------------------------------------------
(* The service over several calls: listDevices and queryDeviceOrGetCached   *)
(* in any order on one FabricService, one call after the other.             *)

InitService ==
    /\ CodecIdle
    /\ SessionInit
    /\ EngineIdle
    /\ world \in CacheWorlds
    /\ svc = NoScan
    /\ deviceCache = << >>
    /\ probes = << >>
    /\ slog = << >>
    /\ tr = NoTransport

\* service.listDevices( returnOnMinCnt ) up to its first queryDevice, when no
\* call is running
ListDevicesCall ==
    \E m \in MinCounts :
       LET uris == CandidateUris(world.ports)
           n == NextProbe(PassPreferred, 0, uris, world.platform)
       IN  /\ svc.pc \in {"idle", "done"}
           /\ Len(slog) < MaxQueries
           /\ svc' = [pc |-> IF n.pass = PassEnd THEN "done" ELSE "scan",
                      returnOnMinCnt |-> m, deviceUris |-> uris,
                      devices |-> << >>, pass |-> n.pass, k |-> n.k,
                      out |-> IF n.pass = PassEnd THEN Returns(<< >>) ELSE NoOut]
           /\ slog' = Append(slog, [call |-> "listDevices", uri |-> << >>,
                                    flag |-> FALSE,
                                    cacheBefore |-> deviceCache,
                                    cacheAfter |-> deviceCache,
                                    probesBefore |-> Len(probes),
                                    probesAfter |-> Len(probes),
                                    out |-> NoOut])
           /\ UNCHANGED <<world, deviceCache, probes, tr>>
           /\ UNCHANGED codecVars
           /\ UNCHANGED sessionVars
           /\ UNCHANGED engineVars

\* service.queryDeviceOrGetCached( uri, fastMode ), when no call is running
QueryCall ==
    /\ svc.pc \in {"idle", "done"}
    /\ QueryDeviceOrGetCached

NextService ==
    \/ ListDevicesCall
    \/ ProbePreferred
    \/ ProbeExhaustive
    \/ QueryCall

SpecService == InitService /\ [][NextService]_vars

----------------------------------------------------------------------------
(* Frame codec properties, checked under SpecCodec *)

\* the byte strings of the harness
Data == Unpack(payload)
OnWire == Unpack(wire)
Returned == Unpack(res.data)

\* the frame as the channel delivers it is the one writeBlock wrote
Intact == wres = "ok" /\ flip = NoFlip /\ ~cut

\* C1: frame round trip. For every payload with 0 <= len(payload) < 0xFFEF,
\* the empty one included, readBlock fed the bytes writeBlock wrote returns
\* exactly that payload.
C1_RoundTrip ==
    (pc = "decoded" /\ wres # "raw" /\ flip = NoFlip /\ ~cut
        /\ Len(Data) < 65519)
    => (wres = "ok" /\ res.kind = "ok" /\ Returned = Data)

\* the longest payload writeBlock accepts has made the round trip
C1_Witness ==
    /\ pc = "decoded"
    /\ Intact
    /\ Len(Data) = 65518
    /\ res.kind = "ok"
    /\ Returned = Data

\* C2: writeBlock writes the magic byte 0x1B, len(payload)+1 as little-endian
\* u16, the payload bytes in order, and one checksum byte sum(payload) mod 256;
\* payload 01 2A gives 1B 03 00 01 2A 2B.
C2_FrameLayout ==
    (pc # "init" /\ Intact)
    => LET p == Data
           w == OnWire
       IN  /\ Len(w) = Len(p) + 4
           /\ w[1] = 27
           /\ w[2] = (Len(p) + 1) % 256
           /\ w[3] = (Len(p) + 1) \div 256
           /\ SubSeq(w, 4, Len(p) + 3) = p
           /\ w[Len(w)] = SumBytes(p, 1, Len(p)) % 256
           /\ (p = << 1, 42 >> => w = << 27, 3, 0, 1, 42, 43 >>)

\* the scenario frame of payload 01 2A is on the channel
C2_Witness ==
    /\ pc = "written"
    /\ Intact
    /\ Data = << 1, 42 >>
    /\ OnWire = << 27, 3, 0, 1, 42, 43 >>

\* C3: checksum sensitivity. With one bit of a payload byte or of the checksum
\* byte of a written frame inverted (magic and length untouched), readBlock
\* fails with the crc error and returns no payload.
C3_ChecksumSensitivity ==
    (pc = "decoded" /\ wres = "ok" /\ flip.pos >= 4 /\ ~cut)
    => res.kind = "CrcFail"

\* the top bit of a payload byte was inverted and the read failed on the crc
C3_Witness ==
    /\ pc = "decoded"
    /\ wres = "ok"
    /\ ~cut
    /\ flip.pos >= 4
    /\ flip.pos < Len(OnWire)
    /\ flip.bit = 7
    /\ res.kind = "CrcFail"

\* C4: readBlock never hands a corrupt frame to its caller. Whenever it
\* returns a payload, the last byte of the frame equalled the sum mod 256 of
\* the length-1 bytes before it, and the payload returned is those bytes.
C4_NoCorruptFrame ==
    (pc = "decoded" /\ res.kind = "ok")
    => LET w == OnWire
       IN  /\ Len(w) >= 4
           /\ LET sz == w[2] + 256 * w[3]
              IN  /\ sz >= 1
                  /\ Len(w) >= 3 + sz
                  /\ w[3 + sz] = SumBytes(w, 4, 2 + sz) % 256
                  /\ Returned = SubSeq(w, 4, 2 + sz)

\* a stream nobody framed was accepted, because its checksum matched
C4_Witness ==
    /\ pc = "decoded"
    /\ wres = "raw"
    /\ res.kind = "ok"
    /\ Len(Returned) > 0

\* C5: writeBlock fails for every payload with len(payload) >= 0xFFEF and then
\* writes no byte to the channel.
C5_OversizeRejected ==
    (pc # "init" /\ wres # "raw" /\ Len(Data) >= 65519)
    => (wres = "MaxPacketSize" /\ OnWire = << >>)

\* the shortest oversized payload was rejected
C5_Witness ==
    /\ pc = "written"
    /\ Len(Data) = 65519
    /\ wres = "MaxPacketSize"
    /\ OnWire = << >>

\* the stream ends before the frame its header announces is complete
Incomplete(w) ==
    \/ Len(w) = 0
    \/ /\ w[1] = 27
       /\ \/ Len(w) < 3
          \/ Len(w) < 3 + w[2] + 256 * w[3]

\* C6: readBlock tells timeout from protocol error. A first byte that is
\* present and is not 0x1B is a protocol error (the failed assertion); a read
\* that returns no data or too few bytes, at the magic, the length, the
\* payload or the checksum, gives the timeout result None and raises nothing.
C6_TimeoutVsProtocol ==
    pc = "decoded"
    => LET w == OnWire
       IN  /\ (Len(w) > 0 /\ w[1] # 27) => res.kind = "AssertionError"
           /\ Incomplete(w) => res.kind = "None"
           /\ res.kind = "AssertionError" => (Len(w) > 0 /\ w[1] # 27)
           /\ res.kind = "None" => Incomplete(w)

\* a frame was cut right before its checksum byte and the read timed out
C6_Witness ==
    /\ pc = "decoded"
    /\ wres = "ok"
    /\ cut
    /\ flip = NoFlip
    /\ Len(Data) > 0
    /\ Len(OnWire) = Len(Data) + 3
    /\ res.kind = "None"

----------------------------------------------------------------------------
(* Transport session properties *)

\* the frame of payload p as the wire protocol defines it
FrameOf(p) ==
    << 27, (Len(p) + 1) % 256, (Len(p) + 1) \div 256 >> \o p
        \o << SumBytes(p, 1, Len(p)) % 256 >>

\* the n bytes of v, least significant first
LittleEndian(v, n) == [k \in 1..n |-> (v \div (256 ^ (k - 1))) % 256]

\* the ser.write calls of the last writeCommand
Writes == SelectSeq(serlog, LAMBDA e : e.op = "write")
\* the packet of the last writeCommand: opcode, counter, serialized command
LastPacket == << lastCmd.cmd, counter >> \o toBytes(Loaded(lastCmd))
\* the body bytes of the frame the last writeCommand wrote
SentBody == SubSeq(Writes[1].data, 6, Len(Writes[1].data) - 1)

\* the last writeCommand flushed both buffers, then wrote the frame of its packet
FlushedThenFramed ==
    /\ Len(serlog) >= 3
    /\ serlog[1] = SerFlushInput
    /\ serlog[2] = SerFlushOutput
    /\ serlog[3] = SerWrite(FrameOf(LastPacket))
    /\ Len(Writes) = 1

\* C7 as stated: each call to writeCommand(cmd) writes exactly one frame, whose
\* payload is [opcode, counter after the increment] + cmd.toBytes(), and the
\* input and output buffers are flushed before that frame is written.
C7_Original == nsends > 0 => FlushedThenFramed

\* C7, amended: each call to writeCommand(cmd) whose packet [opcode, counter
\* after the increment] + cmd.toBytes() is shorter than 0xFFEF bytes writes
\* exactly one frame, with that packet as payload, after flushing the input
\* and output buffers; a call with a longer packet flushes the buffers and
\* writes nothing.
C7_OneFramePerSend ==
    nsends > 0
    => /\ Len(LastPacket) < 65519 => FlushedThenFramed
       /\ Len(LastPacket) >= 65519
            => serlog = << SerFlushInput, SerFlushOutput >>

\* a ProgramBlock request was framed with the counter after the second increment
C7_Witness ==
    /\ nsends = 2
    /\ lastCmd.name = "FQueryProgramBlock"
    /\ FlushedThenFramed
    /\ Writes[1].data[4] = 3
    /\ Writes[1].data[5] = 2

\* C8: the session counter starts at 0 and is incremented by 1 before each
\* send, wrapping from 255 to 0: after n sends it is n mod 256, within 0..255,
\* and the n-th request carries n mod 256 (the first carries 1).
C8_CounterMod256 ==
    /\ counter \in 0..255
    /\ counter = nsends % 256
    /\ (nsends > 0 /\ Len(Writes) > 0) => Writes[1].data[5] = nsends % 256
    /\ (nsends = 1 /\ Len(Writes) > 0) => Writes[1].data[5] = 1

\* the 256th request has been written, carrying the counter wrapped to 0
C8_Witness ==
    /\ nsends = 256
    /\ counter = 0
    /\ Len(Writes) = 1
    /\ Writes[1].data[5] = 0

\* a complete frame whose checksum byte does not match its payload
ChecksumMismatch(w) ==
    /\ Len(w) >= 4
    /\ w[1] = 27
    /\ LET sz == w[2] + 256 * w[3]
       IN  /\ sz >= 1
           /\ Len(w) >= 3 + sz
           /\ w[3 + sz] # SumBytes(w, 4, 2 + sz) % 256

\* C9: when a response class is requested, writeCommand fails with the
\* no-response error if the frame read times out, and a checksum mismatch or a
\* bad magic byte found by readBlock comes out of writeCommand unchanged; in
\* none of these cases does writeCommand return a response object.
C9_ReadFailures ==
    (nsends > 0 /\ lastRc # "None" /\ Len(Writes) = 1)
    => /\ Incomplete(rx) => ret.kind = "NoResponse"
       /\ (Len(rx) > 0 /\ rx[1] # 27) => ret.kind = "AssertionError"
       /\ ChecksumMismatch(rx) => ret.kind = "CrcFail"
       /\ ret.kind = "response"
            => ~(Incomplete(rx) \/ rx[1] # 27 \/ ChecksumMismatch(rx))

\* the answer stopped inside the frame and writeCommand raised no response
C9_Witness ==
    /\ nsends > 0
    /\ lastRc = "FGeneric_Response"
    /\ Len(rx) > 3
    /\ Incomplete(rx)
    /\ ret.kind = "NoResponse"

\* C10: FProgramDevicePacket.toBytes() is saveToFlash as one byte, totalSize
\* as little-endian u32, blockCount as little-endian u32, bitstreamCrc as
\* little-endian u16, 11 bytes; saveToFlash=1, totalSize=100, blockCount=1,
\* bitstreamCrc=0 gives 01 64 00 00 00 01 00 00 00 00 00.
C10_ProgramDeviceLayout ==
    (nsends > 0 /\ lastCmd.name = "FProgramDevicePacket")
    => /\ Len(Writes) = 1
       /\ Len(SentBody) = 11
       /\ SentBody = << lastCmd.saveToFlash >>
                        \o LittleEndian(lastCmd.totalSize, 4)
                        \o LittleEndian(lastCmd.blockCount, 4)
                        \o LittleEndian(lastCmd.bitstreamCrc, 2)
       /\ lastCmd = FProgramDevicePacket(1, 100, 1, 0)
            => SentBody = << 1, 100, 0, 0, 0, 1, 0, 0, 0, 0, 0 >>

\* the scenario's ProgramDevice command went out with the scenario's bytes
C10_Witness ==
    /\ nsends > 0
    /\ lastCmd = FProgramDevicePacket(1, 100, 1, 0)
    /\ Len(Writes) = 1
    /\ SentBody = << 1, 100, 0, 0, 0, 1, 0, 0, 0, 0, 0 >>

----------------------------------------------------------------------------
(* programDevice properties, checked under SpecProgram *)

RECURSIVE PackedLen(_)
\* the length of a packed byte string
PackedLen(runs) ==
    IF Len(runs) = 0 THEN 0 ELSE runs[1].count + PackedLen(Tail(runs))

\* len( bitstreamData ) of the call, and the number of blocks it splits into:
\* the least n with n * 4064 >= len
BitLen == PackedLen(args.bitstreamData)
BlocksOf(n) == CHOOSE k \in 0..n : k * 4064 >= n /\ (k = 0 \/ (k - 1) * 4064 < n)

\* the k-th writeCommand of the call got a response, with error code 0
Answered(k) == sent[k].ret.kind = "response"
AnsweredOk(k) == Answered(k) /\ sent[k].ret.errorCode = 0
\* the ProgramBlock commands sent by the call, in order
BlocksSent == SelectSeq(sent, LAMBDA e : e.cmd.cmd = 3)

\* C11: the first command programDevice(bitstream, saveToFlash) sends is
\* ProgramDevice with totalSize = len(bitstream), blockCount =
\* ceil(len(bitstream) / 4064), bitstreamCrc = 0 and saveToFlash = 1 exactly
\* when the argument is true, else 0; no ProgramBlock or ProgramComplete is
\* sent before the response to it arrived.
C11_BeginCommand ==
    (call = "programDevice" /\ Len(sent) >= 1)
    => /\ sent[1].cmd.cmd = 2
       /\ sent[1].cmd.totalSize = BitLen
       /\ sent[1].cmd.blockCount = BlocksOf(BitLen)
       /\ sent[1].cmd.bitstreamCrc = 0
       /\ sent[1].cmd.saveToFlash = (IF args.saveToFlash THEN 1 ELSE 0)
       /\ toBytes(sent[1].cmd)
            = << IF args.saveToFlash THEN 1 ELSE 0 >> \o LittleEndian(BitLen, 4)
                \o LittleEndian(BlocksOf(BitLen), 4) \o << 0, 0 >>
       /\ \A k \in 2..Len(sent) :
             /\ sent[k].cmd.cmd \in {3, 4}
             /\ Answered(1)

\* a bitstream of 4065 bytes was begun with saveToFlash, announced as 2 blocks,
\* and a block followed the response
C11_Witness ==
    /\ call = "programDevice"
    /\ BitLen = 4065
    /\ args.saveToFlash
    /\ Len(sent) >= 2
    /\ sent[1].cmd.blockCount = 2
    /\ sent[1].cmd.saveToFlash = 1
    /\ sent[2].cmd.cmd = 3

\* C12: for a bitstream of length L every ProgramBlock except the last has
\* rawSize 4064, the last has 0 < rawSize < 4064 unless L is a positive
\* multiple of 4064, when all blocks have rawSize 4064; no block of rawSize 0
\* is sent. (The blocks of a call that returned are all the blocks of L.)
C12_BlockSplitting ==
    (call = "programDevice")
    => /\ Len(BlocksSent) <= BlocksOf(BitLen)
       /\ \A j \in 1..Len(BlocksSent) :
             LET sz == BlocksSent[j].cmd.blockSz
             IN  /\ sz > 0
                 /\ j < BlocksOf(BitLen) => sz = 4064
                 /\ (j = BlocksOf(BitLen) /\ BitLen % 4064 = 0) => sz = 4064
                 /\ (j = BlocksOf(BitLen) /\ BitLen % 4064 # 0)
                        => (sz < 4064 /\ sz = BitLen % 4064)
       /\ out.kind = "return" => Len(BlocksSent) = BlocksOf(BitLen)

\* a bitstream of 8127 bytes was sent as a block of 4064 and a block of 4063
C12_Witness ==
    /\ call = "programDevice"
    /\ BitLen = 8127
    /\ out.kind = "return"
    /\ Len(BlocksSent) = 2
    /\ BlocksSent[1].cmd.blockSz = 4064
    /\ BlocksSent[2].cmd.blockSz = 4063

\* C13: the commands a programDevice call sends are a prefix of ProgramDevice,
\* ProgramBlock(0), ..., ProgramBlock(n-1), ProgramComplete, with the block ids
\* consecutive from 0, and each command is sent only after the response to the
\* one before it was received with errorCode 0.
C13_CommandOrder ==
    (call = "programDevice")
    => \A k \in 1..Len(sent) :
          /\ k = 1 => sent[k].cmd.cmd = 2
          /\ k > 1
               => /\ AnsweredOk(k - 1)
                  /\ \/ /\ sent[k].cmd.cmd = 3
                        /\ sent[k].cmd.blockId = k - 2
                        /\ k - 2 < BlocksOf(BitLen)
                     \/ /\ sent[k].cmd.cmd = 4
                        /\ k = Len(sent)
                        /\ k - 2 = BlocksOf(BitLen)

\* a bitstream of two full blocks went out as begin, block 0, block 1, complete
C13_Witness ==
    /\ call = "programDevice"
    /\ BitLen = 8128
    /\ Len(sent) = 4
    /\ sent[2].cmd.blockId = 0
    /\ sent[3].cmd.blockId = 1
    /\ sent[4].cmd.cmd = 4

\* a complete frame with a matching checksum that carries a generic response
GenericFrame(w) ==
    /\ Len(w) >= 10
    /\ w[1] = 27
    /\ Len(w) = 3 + w[2] + 256 * w[3]
    /\ w[Len(w)] = SumBytes(w, 4, Len(w) - 1) % 256
\* the error code it carries: the little-endian u32 after the two header bytes
CodeOf(w) == w[6] + 256 * w[7] + 65536 * w[8] + 16777216 * w[9]

\* C14: when the response to ProgramDevice or to a ProgramBlock carries a
\* nonzero errorCode, programDevice raises at once: that command is the last
\* one of the call, no ProgramBlock and no ProgramComplete follows it.
C14_AbortOnErrorCode ==
    (call = "programDevice")
    => \A k \in 1..Len(sent) :
          (sent[k].cmd.cmd \in {2, 3} /\ GenericFrame(sent[k].rx)
                /\ CodeOf(sent[k].rx) # 0)
          => /\ k = Len(sent)
             /\ epc = "done"
             /\ out = DeviceFailed(CodeOf(sent[k].rx))

\* the second block was answered with error code 256 and the call raised
C14_Witness ==
    /\ call = "programDevice"
    /\ Len(sent) = 3
    /\ sent[3].cmd.cmd = 3
    /\ GenericFrame(sent[3].rx)
    /\ CodeOf(sent[3].rx) = 256
    /\ out = DeviceFailed(256)

\* every command of the call was sent and answered with error code 0
AllAnsweredOk ==
    /\ Len(sent) = BlocksOf(BitLen) + 2
    /\ sent[Len(sent)].cmd.cmd = 4
    /\ \A k \in 1..Len(sent) : GenericFrame(sent[k].rx) /\ CodeOf(sent[k].rx) = 0

\* C15: programDevice returns success exactly when the responses to
\* ProgramDevice, to every ProgramBlock and to ProgramComplete all carried
\* errorCode 0; in every other outcome it raises, and it returns nothing else.
C15_SuccessIffAllOk ==
    (call = "programDevice")
    => /\ epc = "done" => (out = Returns(TRUE) <=> AllAnsweredOk)
       /\ (epc = "done" /\ ~AllAnsweredOk) => out.kind = "raise"
       /\ epc # "done" => out = NoOut

\* a bitstream of one full block was programmed and the call returned True
C15_Witness ==
    /\ call = "programDevice"
    /\ BitLen = 4064
    /\ epc = "done"
    /\ Len(sent) = 3
    /\ out = Returns(TRUE)

\* the response did not arrive whole, or not with the magic byte, or not with
\* the checksum of its payload
FailedRead(w) == Incomplete(w) \/ w[1] # 27 \/ ChecksumMismatch(w)
\* what tells one command of a call from another: opcode and block id
CommandKey(e) == << e.cmd.cmd, IF e.cmd.cmd = 3 THEN e.cmd.blockId ELSE 0 >>

\* C16: in programDevice a timeout, a bad magic byte or a checksum mismatch on
\* any response ends the call with an error, no command is sent after the
\* failing one, and no command (opcode and blockId) is sent twice in one call.
C16_NoRetry ==
    (call = "programDevice")
    => /\ \A k \in 1..Len(sent) :
             FailedRead(sent[k].rx)
             => /\ k = Len(sent)
                /\ epc = "done"
                /\ out.kind = "raise"
       /\ \A j, k \in 1..Len(sent) :
             j # k => CommandKey(sent[j]) # CommandKey(sent[k])

\* the second block got no answer and the call ended with the no-response error
C16_Witness ==
    /\ call = "programDevice"
    /\ Len(sent) = 3
    /\ sent[3].cmd.cmd = 3
    /\ sent[3].cmd.blockId = 1
    /\ sent[3].rx = << >>
    /\ out = [kind |-> "raise", exc |-> "NoResponse"]

----------------------------------------------------------------------------
(* queryDevice / rebootProgrammer properties, checked under SpecEngine *)

\* a complete frame with a matching checksum that carries a QueryDevice response
QueryFrame(w) == GenericFrame(w) /\ Len(w) >= 19
\* the body of a response frame: what follows the opcode and counter bytes
BodyOf(w) == SubSeq(w, 6, Len(w) - 1)

\* C17: on a received QueryDevice response queryDevice() returns a DeviceInfo
\* whose status is Ok exactly when deviceState = 1 and Unknown for every other
\* deviceState (never NoResponse), whose fpgaDeviceId is the little-endian u32
\* at body offset 1, and whose uri is the uri of the session.
C17_QueryDeviceInfo ==
    \A k \in 1..Len(hist) :
       (hist[k].call = "queryDevice" /\ QueryFrame(hist[k].rx))
       => /\ hist[k].out.kind = "return"
          /\ LET b == BodyOf(hist[k].rx)
                 info == hist[k].out.value
             IN  /\ info.status = (IF b[1] = 1 THEN "ok" ELSE "unkown")
                 /\ info.status # "noresponse"
                 /\ info.fpgaDeviceId
                      = b[2] + 256 * b[3] + 65536 * b[4] + 16777216 * b[5]
                 /\ info.uri = uri

\* a device in state 1 with id 0x41111043 was found on /dev/ttyACM0
C17_Witness ==
    /\ Len(hist) >= 1
    /\ hist[1].call = "queryDevice"
    /\ QueryFrame(hist[1].rx)
    /\ BodyOf(hist[1].rx)[1] = 1
    /\ hist[1].out.kind = "return"
    /\ hist[1].out.value.status = "ok"
    /\ hist[1].out.value.fpgaDeviceId = 1091637315
    /\ hist[1].out.value.uri = "usbserial:///dev/ttyACM0"

\* C18 as stated: queryDevice() returns None, without raising, when the device
\* sends no response within the timeout.
C18_NoneOnTimeout ==
    \A k \in 1..Len(hist) :
       (hist[k].call = "queryDevice" /\ hist[k].rx = << >>)
       => /\ hist[k].out.kind = "return"
          /\ hist[k].out.value = "None"

\* C19: two queryDevice() calls on one session that the device answers with
\* the same response body give DeviceInfo values with the same status,
\* fpgaDeviceId and uid, whatever the session counter is and whatever commands
\* were sent in between.
C19_QueryDeterminism ==
    \A j, k \in 1..Len(hist) :
       (/\ j < k
        /\ hist[j].call = "queryDevice" /\ hist[k].call = "queryDevice"
        /\ QueryFrame(hist[j].rx) /\ QueryFrame(hist[k].rx)
        /\ BodyOf(hist[j].rx) = BodyOf(hist[k].rx))
       => /\ hist[j].out.kind = "return"
          /\ hist[k].out.kind = "return"
          /\ hist[j].out.value.status = hist[k].out.value.status
          /\ hist[j].out.value.fpgaDeviceId = hist[k].out.value.fpgaDeviceId
          /\ hist[j].out.value.uid = hist[k].out.value.uid

\* the same device answered a query at counter 1 and, after a reboot command,
\* at counter 3, each time echoing the counter
C19_Witness ==
    /\ Len(hist) = 3
    /\ hist[1].call = "queryDevice"
    /\ hist[2].call = "rebootProgrammer"
    /\ hist[3].call = "queryDevice"
    /\ QueryFrame(hist[1].rx) /\ QueryFrame(hist[3].rx)
    /\ hist[1].rx[5] = 1 /\ hist[3].rx[5] = 3
    /\ BodyOf(hist[1].rx) = BodyOf(hist[3].rx)
    /\ hist[3].out.kind = "return"
    /\ hist[3].out.value.uid
         = << "e", "6", "6", "1", "6", "4", "8", "4", "3", "b", "2", "a", "2", "5" >>

\* C20: rebootProgrammer() writes exactly one RebootProgrammer frame (opcode
\* 0x08, empty body) and returns true without reading anything from the
\* channel, whether or not the device answers.
C20_RebootNoRead ==
    \A k \in 1..Len(hist) :
       hist[k].call = "rebootProgrammer"
       => /\ hist[k].log
               = << SerFlushInput, SerFlushOutput,
                    SerWrite(FrameOf(<< 8, (hist[k].counter + 1) % 256 >>)) >>
          /\ \A e \in 1..Len(hist[k].log) : hist[k].log[e].op # "read"
          /\ hist[k].out = Returns(TRUE)

\* the device answered the reboot command and nothing was read
C20_Witness ==
    /\ Len(hist) >= 2
    /\ hist[2].call = "rebootProgrammer"
    /\ Len(hist[2].rx) > 0
    /\ hist[2].log[3] = SerWrite(<< 27, 3, 0, 8, 2, 10 >>)
    /\ hist[2].out = Returns(TRUE)

----------------------------------------------------------------------------
(* Response parsing and correlation, checked under Spec *)

\* a complete frame with a matching checksum, of any payload length
ValidFrame(w) ==
    /\ Len(w) >= 4
    /\ w[1] = 27
    /\ Len(w) = 3 + w[2] + 256 * w[3]
    /\ w[Len(w)] = SumBytes(w, 4, Len(w) - 1) % 256
\* the number of body bytes of a frame: its payload less opcode and counter
BodyLen(w) == Len(w) - 6
\* the bytes of the fixed layout of each response type
LayoutLen(rc) ==
    CASE rc = "FGeneric_Response" -> 4
      [] rc = "FQueryDevicePacket_Response" -> 13
      [] rc = "QueryBitstreamFlash_Response" -> 17
\* the last writeCommand wrote its frame and waited for a response
Awaited == nsends > 0 /\ lastRc # "None" /\ Len(Writes) = 1

\* C27: parsing a Generic response body shorter than 4 bytes, a QueryDevice
\* response body shorter than 13 bytes or a QueryBitstreamFlash response body
\* shorter than 17 bytes fails with an error, and writeCommand returns no
\* partially filled response object.
C27_FullLayoutRequired ==
    (Awaited /\ ValidFrame(rx) /\ BodyLen(rx) < LayoutLen(lastRc))
    => /\ ret.kind \in {"IndexError", "NoResponse"}
       /\ BodyLen(rx) > 0 => ret.kind = "IndexError"

\* a QueryDevice response of 12 body bytes ended in the index error
C27_Witness ==
    /\ Awaited
    /\ lastRc = "FQueryDevicePacket_Response"
    /\ ValidFrame(rx)
    /\ BodyLen(rx) = 12
    /\ ret.kind = "IndexError"

\* C28 as stated: writeCommand parses and returns any checksum-valid response
\* frame with a non-empty body, whatever opcode and counter it echoes.
C28_Original ==
    (Awaited /\ ValidFrame(rx) /\ BodyLen(rx) > 0)
    => /\ ret.kind = "response"
       /\ ret.cmd = rx[4]
       /\ ret.counter = rx[5]

\* C28, amended: writeCommand parses and returns any checksum-valid response
\* frame whose body has at least the bytes of the requested response type's
\* layout, using that type, even when the opcode or counter the frame echoes
\* differ from the request just sent; they are only recorded on the response.
C28_NoCorrelation ==
    (Awaited /\ ValidFrame(rx) /\ BodyLen(rx) >= LayoutLen(lastRc))
    => /\ ret.kind = "response"
       /\ ret.class = lastRc
       /\ ret.cmd = rx[4]
       /\ ret.counter = rx[5]

\* the second request, ClearBitstreamFlash at counter 2, was answered by a
\* frame that echoes QueryDevice at counter 0, and it came back as the response
C28_Witness ==
    /\ Awaited
    /\ lastCmd.cmd = 7
    /\ counter = 2
    /\ ValidFrame(rx)
    /\ rx[4] = 1 /\ rx[5] = 0
    /\ ret.kind = "response"
    /\ ret.class = "FGeneric_Response"
    /\ ret.cmd = 1 /\ ret.counter = 0

----------------------------------------------------------------------------
(* The counter wrap rule, checked under SpecCounter *)

\* C29 as stated: where the wrap rule (sum % 0xFF) - 1 is applied, at the send
\* after the counter reached 255, the counter leaves the modulo-256 sequence
\* 1, 2, ..., 255, 0, 1, ...
C29_Original ==
    (nsends > 0 /\ nsends % 256 = 0) => counter # 0

\* C29, amended: the wrap rule gives 0 for 255 + 1, so under repeated +1
\* increments every send takes the counter to its successor modulo 256 and
\* the cycle has the uniform length 256.
C29_UniformCycle ==
    [][counter' = (counter + 1) % 256]_vars

\* the counter has wrapped and is counting up again
C29_Witness ==
    /\ nsends = 257
    /\ counter = 1

----------------------------------------------------------------------------
(* The ProgramBlock body, checked under SpecProgram *)

RECURSIVE PackedSum(_, _, _)
\* the sum of the bytes at positions lo..hi of a packed byte string
PackedSum(runs, lo, hi) ==
    IF Len(runs) = 0 \/ hi < lo THEN 0
    ELSE LET n == runs[1].count
             inside == (IF hi < n THEN hi ELSE n) - (IF lo > 1 THEN lo ELSE 1) + 1
         IN  (IF inside > 0 THEN inside * runs[1].byte ELSE 0)
                + PackedSum(Tail(runs), lo - n, hi - n)

\* the raw chunk of block j of the bitstream: positions j*4064+1 .. its end
ChunkFirst(j) == j * 4064 + 1
ChunkLast(j) == IF (j + 1) * 4064 < BitLen THEN (j + 1) * 4064 ELSE BitLen

\* C30: the body of every ProgramBlock programDevice sends is blockId (u16
\* LE), compressedSize (u16 LE), rawSize (u16 LE), blockChecksum (u8),
\* compressedBlock; blockChecksum is the sum of the raw chunk's bytes mod 256,
\* rawSize the length of the raw chunk, compressedBlock starts with rawSize as
\* 2 bytes big-endian followed by the deflate stream, and compressedSize is
\* the length of compressedBlock with that header.
C30_ProgramBlockBody ==
    (call = "programDevice")
    => \A k \in 1..Len(sent) :
          sent[k].cmd.cmd = 3
          => LET c == Loaded(sent[k].cmd)
                 j == c.blockId
                 raw == ChunkLast(j) - ChunkFirst(j) + 1
                 body == toBytes(c)
                 block == SubSeq(body, 8, Len(body))
             IN  /\ Len(body) >= 9
                 /\ SubSeq(body, 1, 2) = << j % 256, j \div 256 >>
                 /\ SubSeq(body, 3, 4)
                      = << Len(block) % 256, Len(block) \div 256 >>
                 /\ SubSeq(body, 5, 6) = << raw % 256, raw \div 256 >>
                 /\ body[7]
                      = PackedSum(args.bitstreamData, ChunkFirst(j), ChunkLast(j)) % 256
                 /\ SubSeq(block, 1, 2) = << raw \div 256, raw % 256 >>
                 /\ SubSeq(block, 3, Len(block)) \in ZlibStreams

\* block 1 of a bitstream of 8128 bytes: 4064 raw bytes of 0xff, sum 0x20,
\* behind the header 0F E0
C30_Witness ==
    /\ call = "programDevice"
    /\ BitLen = 8128
    /\ Len(sent) >= 3
    /\ sent[3].cmd.cmd = 3
    /\ SubSeq(toBytes(Loaded(sent[3].cmd)), 1, 9)
         = << 1, 0, 5, 0, 224, 15, 32, 15, 224 >>

----------------------------------------------------------------------------
(* Discovery, checked under SpecDiscovery *)

Scanning == svc.pc # "idle"
Finished == svc.pc = "done"
\* the candidate behind uri u answers every query
Responds(u) == world.behaviour[PortOf(u)] = "ok"
ProbedUris == {probes[a].uri : a \in 1..Len(probes)}
FirstResponds ==
    /\ Scanning
    /\ svc.returnOnMinCnt = << 1 >>
    /\ Len(svc.deviceUris) >= 1
    /\ Responds(svc.deviceUris[1])
OnlyFirstProbed ==
    /\ ProbedUris \subseteq {svc.deviceUris[1]}
    /\ Finished => /\ svc.out.kind = "return"
                   /\ Len(svc.out.value) = 1
                   /\ svc.out.value[1].info.uri = svc.deviceUris[1]

\* C21 as stated: with minimumCount = 1 and a first candidate that responds,
\* listDevices returns exactly one device and probes no later candidate,
\* whichever candidates match the preferred patterns.
C21_Original == FirstResponds => OnlyFirstProbed

\* C21: with minimumCount = 1 and a first candidate that responds,
\* listDevices returns exactly one device and probes no later candidate,
\* provided the first candidate matches the platform's preferred patterns or
\* no candidate does.
C21_EarlyExit ==
    (/\ FirstResponds
     /\ \/ isValid(svc.deviceUris[1], world.platform)
        \/ \A a \in 1..Len(svc.deviceUris) :
              ~isValid(svc.deviceUris[a], world.platform))
    => OnlyFirstProbed
C21_Witness ==
    /\ FirstResponds
    /\ Finished
    /\ world.platform = "Linux"
    /\ svc.deviceUris = << UriOf(<< "/dev/ttyACM", "0" >>),
                           UriOf(<< "/dev/ttyACM", "1" >>) >>
    /\ Responds(svc.deviceUris[2])
    /\ Len(probes) = 1
    /\ probes[1].uri = svc.deviceUris[1]
    /\ Len(svc.out.value) = 1

\* C22: a candidate whose probe fails counts as having no device, the other
\* candidates are still probed, and listDevices returns a list, in the
\* preferred pass as in the pass over all candidates.
C22_FailingPortNeverAborts ==
    Finished =>
       /\ svc.out.kind = "return"
       /\ \A a \in 1..Len(svc.out.value) : Responds(svc.out.value[a].info.uri)
          \/ world.behaviour[PortOf(svc.out.value[a].info.uri)] = "late"
       /\ svc.returnOnMinCnt = << >> =>
             \A a \in 1..Len(svc.deviceUris) : svc.deviceUris[a] \in ProbedUris

\* C23: no two entries of the list listDevices returns have the same uri.
C23_DeduplicatedByUri ==
    (Finished /\ svc.out.kind = "return") =>
        \A a, b \in 1..Len(svc.out.value) :
            a # b => svc.out.value[a].info.uri # svc.out.value[b].info.uri

\* the ports of comports() that are not on the denylist, in order
RECURSIVE Allowed(_)
Allowed(ports) ==
    IF Len(ports) = 0 THEN << >>
    ELSE (IF ports[1] = << "COM", "1" >> THEN << >> ELSE << ports[1] >>)
            \o Allowed(Tail(ports))
\* C24: a port on the denylist is never opened or queried by listDevices and
\* never appears in its result; every other port becomes the candidate
\* 'usbserial://<port>'.
C24_IgnoredPorts ==
    /\ \A a \in 1..Len(probes) : PortOf(probes[a].uri) # << "COM", "1" >>
    /\ Scanning =>
          /\ Len(svc.deviceUris) = Len(Allowed(world.ports))
          /\ \A a \in 1..Len(svc.deviceUris) :
                svc.deviceUris[a] = << "usbserial", "://" >> \o Allowed(world.ports)[a]
    /\ (Finished /\ svc.out.kind = "return") =>
          \A a \in 1..Len(svc.out.value) :
             PortOf(svc.out.value[a].info.uri) # << "COM", "1" >>
C24_Witness ==
    /\ Finished
    /\ world.ports = << << "COM", "1" >>, << "COM", "3" >> >>
    /\ world.behaviour[<< "COM", "1" >>] = "ok"
    /\ svc.returnOnMinCnt = << >>
    /\ svc.deviceUris = << << "usbserial", "://", "COM", "3" >> >>
    /\ Len(probes) = 2
    /\ svc.out.kind = "return"
    /\ Len(svc.out.value) > 0

----------------------------------------------------------------------------
(* The device cache and the timeouts, checked under SpecCache *)

LastCall == slog[Len(slog)]
\* the cache with obj stored under u
Stores(cache, u, obj) ==
    /\ DOMAIN deviceCache = DOMAIN cache \cup {u}
    /\ deviceCache[u] = obj
    /\ \A v \in DOMAIN cache : v # u => deviceCache[v] = cache[v]
\* the frame of a QueryDevice command was written to the port
Queried(probe) ==
    /\ probe.opened
    /\ \E a \in 1..Len(probe.log) :
          /\ probe.log[a].op = "write"
          /\ probe.log[a].data[4] = 1

C26_TimeoutByArgument ==
    /\ tr.kind = "transport" => tr.timeout = tr.write_timeout
    /\ (Len(slog) > 0 /\ LastCall.call = "setFastTimeoutMode") =>
          /\ LastCall.flag => tr.timeout = 100 /\ tr.write_timeout = 100
          /\ ~LastCall.flag => tr.timeout = 10000 /\ tr.write_timeout = 10000

----------------------------------------------------------------------------
(* The order of the probes, checked under SpecDiscovery *)

\* the candidates of the call, and those the platform prefers
Candidates ==
    [a \in 1..Len(Allowed(world.ports)) |->
        << "usbserial", "://" >> \o Allowed(world.ports)[a]]
Preferred(u) ==
    \/ world.platform = "Linux" /\ u[3] = "/dev/ttyACM"
    \/ world.platform = "Darwin" /\ u[3] = "/dev/cu.usbmodem"
Probe(u, fast) == [uri |-> u, fast |-> fast]
\* the probes of a call that no return or exception ends early
FullOrder ==
    [a \in 1..Len(SelectSeq(Candidates, Preferred)) |->
        Probe(SelectSeq(Candidates, Preferred)[a], TRUE)]
      \o [a \in 1..Len(Candidates) |-> Probe(Candidates[a], TRUE)]
      \o [a \in 1..Len(Candidates) |-> Probe(Candidates[a], FALSE)]

\* C31: listDevices probes first the preferred candidates in fast mode and
\* in candidate order, then every candidate in fast mode, then every
\* candidate with the normal timeout, so no candidate is probed with the
\* normal timeout before every candidate had a fast probe.
C31_ProbeOrder ==
    /\ Len(probes) <= Len(FullOrder)
    /\ \A a \in 1..Len(probes) :
          /\ Probe(probes[a].uri, probes[a].fast) = FullOrder[a]
          /\ probes[a].opened =>
                /\ probes[a].timeout = (IF probes[a].fast THEN 100 ELSE 10000)
                /\ probes[a].write_timeout = probes[a].timeout
          /\ ~probes[a].fast =>
                \A b \in 1..Len(Candidates) :
                   \E c \in 1..(a - 1) :
                      probes[c].fast /\ probes[c].uri = Candidates[b]
    /\ (Finished /\ svc.out.kind = "return" /\ svc.returnOnMinCnt = << >>)
          => Len(probes) = Len(FullOrder)
C31_Witness ==
    /\ Finished
    /\ world.platform = "Linux"
    /\ world.ports = << << "/dev/ttyUSB", "0" >>, << "/dev/ttyACM", "0" >> >>
    /\ Len(probes) = 5
    /\ probes[1].uri = << "usbserial", "://", "/dev/ttyACM", "0" >>
    /\ probes[2].uri = << "usbserial", "://", "/dev/ttyUSB", "0" >>
    /\ probes[2].fast
    /\ ~probes[4].fast
    /\ probes[4].timeout = 10000

----------------------------------------------------------------------------
(* Termination of the scan, checked under SpecDiscoveryFair *)

\* the probes of uri u made in fast mode, or with the normal timeout
ProbesOf(u, fast) ==
    {a \in 1..Len(probes) : probes[a].uri = u /\ probes[a].fast = fast}

\* C39: listDevices terminates for every candidate list and every outcome of
\* the probes: each candidate is probed at most three times in a call, at
\* most twice in fast mode and at most once with the normal timeout.
C39_ScanTerminates ==
    /\ [](\A u \in ProbedUris :
             /\ Cardinality(ProbesOf(u, TRUE)) <= 2
             /\ Cardinality(ProbesOf(u, FALSE)) <= 1
             /\ Cardinality(ProbesOf(u, TRUE)) = 2 => Preferred(u))
    /\ (svc.pc = "scan") ~> Finished
C39_Witness ==
    /\ Finished
    /\ svc.out = Returns(<< >>)
    /\ world.platform = "Windows"
    /\ world.ports = << << "COM", "3" >>, << "COM", "4" >> >>
    /\ world.behaviour[<< "COM", "3" >>] = "silent"
    /\ world.behaviour[<< "COM", "4" >>] = "closed"
    /\ Len(probes) = 4

----------------------------------------------------------------------------
(* The minimum count, checked under SpecDiscovery *)

\* listDevices returned because returnOnMinCnt was reached
ReturnedEarly ==
    /\ Finished
    /\ svc.out.kind = "return"
    /\ Len(svc.returnOnMinCnt) > 0
    /\ Len(svc.out.value) >= svc.returnOnMinCnt[1]

\* C38: when listDevices returns early because minimumCount = k was reached,
\* the returned list holds k devices with pairwise distinct uris.
C38_MinCountDistinct ==
    ReturnedEarly =>
       /\ Len(svc.out.value) = svc.returnOnMinCnt[1]
       /\ \A a, b \in 1..Len(svc.out.value) :
             a # b => svc.out.value[a].info.uri # svc.out.value[b].info.uri

----------------------------------------------------------------------------
(* Sessions opened by a cache miss, checked under SpecCache *)

\* the sessions the last call opened; the first is still held by the local
\* variable transport when s.queryDevice opens the next
OpenedByLastCall ==
    {a \in (LastCall.probesBefore + 1)..LastCall.probesAfter : probes[a].opened}

\* C37: on a cache miss queryDeviceOrGetCached opens the port once: at no
\* point of the call are two sessions open on the same uri.
C37_SingleOpen ==
    (/\ Len(slog) > 0
     /\ LastCall.call = "queryDeviceOrGetCached"
     /\ LastCall.uri \notin DOMAIN LastCall.cacheBefore)
    => /\ Cardinality(OpenedByLastCall) <= 1
       /\ \A a, b \in OpenedByLastCall : probes[a].uri = probes[b].uri => a = b

----------------------------------------------------------------------------
(* The cache over several calls, checked under SpecService *)

\* the device behind the last probe answered it
LastProbeAnswered(log) ==
    /\ log[Len(log)].opened
    /\ \/ BehaviourOf(log[Len(log)].uri) = "ok"
       \/ BehaviourOf(log[Len(log)].uri) = "late" /\ ~log[Len(log)].fast

\* C32: every cache entry under key k is a DeviceInfo whose uri is k, every
\* device listDevices returned is cached under its uri, a uri once cached is
\* never removed, and a failed probe adds, removes and replaces no entry.
C32_CacheInvariant ==
    /\ [](/\ \A k \in DOMAIN deviceCache :
                /\ deviceCache[k].kind = "FabricDeviceInfo"
                /\ deviceCache[k].info.uri = k
          /\ (Finished /\ svc.out.kind = "return") =>
                \A a \in 1..Len(svc.out.value) :
                   /\ svc.out.value[a].info.uri \in DOMAIN deviceCache
                   /\ deviceCache[svc.out.value[a].info.uri].info
                         = svc.out.value[a].info)
    /\ [][/\ DOMAIN deviceCache \subseteq DOMAIN deviceCache'
          /\ (Len(probes') > Len(probes) /\ ~LastProbeAnswered(probes'))
                => deviceCache' = deviceCache]_vars
C32_Witness ==
    /\ Len(slog) = 2
    /\ slog[1].call = "queryDeviceOrGetCached"
    /\ slog[1].cacheAfter # slog[1].cacheBefore
    /\ slog[2].call = "listDevices"
    /\ Finished
    /\ svc.out.kind = "return"
    /\ Len(svc.out.value) = 4
    /\ Cardinality(DOMAIN deviceCache) = 2
    /\ \E a \in 1..Len(probes) : probes[a].opened /\ ~LastProbeAnswered(SubSeq(probes, 1, a))

----------------------------------------------------------------------------
(* Frames without a checksum byte, checked under SpecCodec *)

\* the stream holds a whole header whose length field is 0
LengthZero(w) == Len(w) >= 3 /\ w[1] = HeaderMagic /\ w[2] = 0 /\ w[3] = 0

\* C34: a received frame whose length field is 0, which so carries no checksum
\* byte, is rejected by readBlock as a frame-level error, the failed magic
\* assertion or the checksum failure; it is never returned as a payload and
\* never fails in another way.
C34_LengthZeroRejected ==
    (pc = "decoded" /\ LengthZero(OnWire))
    => res.kind \in {"AssertionError", "CrcFail"}

----------------------------------------------------------------------------
(* Short response frames, checked under Spec *)

\* the number of payload bytes of a frame: opcode, counter and body
PayloadLen(w) == Len(w) - 4

\* C35: a checksum-valid response frame whose payload has fewer than 3 bytes
\* (opcode and counter with an empty body, or less) is reported by
\* writeCommand as "No response", the same outcome as a read that timed out
\* at the first byte; writeCommand returns a response object only for frames
\* with at least one body byte.
C35_ShortFrameNoResponse ==
    Awaited
    => /\ (ValidFrame(rx) /\ PayloadLen(rx) < 3) => ret = [kind |-> "NoResponse"]
       /\ Len(rx) = 0 => ret = [kind |-> "NoResponse"]
       /\ ret.kind = "response" => (ValidFrame(rx) /\ BodyLen(rx) >= 1)

\* a frame of opcode and counter alone, checksum matching, gave "No response"
C35_Witness ==
    /\ Awaited
    /\ ValidFrame(rx)
    /\ PayloadLen(rx) = 2
    /\ BodyLen(rx) = 0
    /\ ret = [kind |-> "NoResponse"]

----------------------------------------------------------------------------
(* The counter over failing sends, checked under Spec *)

\* C36: every call to writeCommand advances the session counter by exactly
\* one step, including calls that then fail (a packet refused by writeBlock
\* for its size, a read timeout, a checksum or magic error); nothing else
\* changes the counter, so a failed send is not rolled back and the next
\* request carries the following counter value.
C36_CounterAdvances ==
    [][/\ nsends' = nsends + 1 => counter' = (counter + 1) % 256
       /\ counter' # counter => nsends' = nsends + 1
       /\ Len(Writes') = 1 => Writes'[1].data[5] = (counter + 1) % 256]_vars

\* after a first send, a second one was refused for its size with nothing
\* written, and the counter stands at 2
C36_Witness ==
    /\ nsends = 2
    /\ ret.kind = "MaxPacketSize"
    /\ Len(Writes) = 0
    /\ counter = 2

----------------------------------------------------------------------------
(* The uid of a device, checked under SpecEngine *)

\* the 8-byte identifier a QueryDevice response frame reports
ProgDeviceIdOf(w) == SubSeq(BodyOf(w), 6, 13)

\* C33: the uid distinguishes devices: for any two different 8-byte device
\* identifiers reported in QueryDevice responses, queryDevice produces
\* different uid strings.
C33_UidInjective ==
    \A j, k \in 1..Len(hist) :
       (/\ hist[j].call = "queryDevice" /\ QueryFrame(hist[j].rx)
        /\ hist[k].call = "queryDevice" /\ QueryFrame(hist[k].rx)
        /\ hist[j].out.kind = "return" /\ hist[k].out.kind = "return"
        /\ ProgDeviceIdOf(hist[j].rx) # ProgDeviceIdOf(hist[k].rx))
       => hist[j].out.value.uid # hist[k].out.value.uid

----------------------------------------------------------------------------
(* The blocks against the announcement, checked under SpecProgram *)

RECURSIVE RawSizes(_)
\* the sum of the rawSize fields of a sequence of ProgramBlock commands
RawSizes(blocks) ==
    IF Len(blocks) = 0 THEN 0
    ELSE blocks[Len(blocks)].cmd.blockSz
            + RawSizes(SubSeq(blocks, 1, Len(blocks) - 1))
\* every command sent so far was answered with error code 0
EveryAnswerOk == \A k \in 1..Len(sent) : AnsweredOk(k)

\* C40: blocks partition the bitstream consistently with the announcement.
\* The ProgramBlock commands of a programDevice call carry the block ids
\* 0, 1, ... in order, and the block in place j covers the bytes right after
\* those of the blocks before it (its blockChecksum is the sum of exactly
\* those bytes), with no gap, overlap or repetition; in a run that ended with
\* every response carrying errorCode 0, the number of ProgramBlock commands is
\* the blockCount announced in ProgramDevice and their rawSize values sum to
\* the announced totalSize, the length of the bitstream. For an empty
\* bitstream ProgramDevice{blockCount=0} is followed directly by
\* ProgramComplete, and no ProgramBlock is sent.
C40_BlocksPartition ==
    (call = "programDevice" /\ Len(sent) >= 1)
    => /\ \A j \in 1..Len(BlocksSent) :
             LET before == RawSizes(SubSeq(BlocksSent, 1, j - 1))
                 c == BlocksSent[j].cmd
             IN  /\ c.blockId = j - 1
                 /\ c.blockSz > 0
                 /\ before + c.blockSz <= BitLen
                 /\ c.blockCrc
                      = PackedSum(args.bitstreamData, before + 1,
                                  before + c.blockSz) % 256
       /\ (epc = "done" /\ EveryAnswerOk)
            => /\ Len(BlocksSent) = sent[1].cmd.blockCount
               /\ RawSizes(BlocksSent) = sent[1].cmd.totalSize
               /\ RawSizes(BlocksSent) = BitLen
               /\ sent[Len(sent)].cmd.cmd = 4
               /\ Len(sent) = Len(BlocksSent) + 2
       /\ BitLen = 0
            => /\ sent[1].cmd.blockCount = 0
               /\ BlocksSent = << >>
               /\ Len(sent) >= 2
                    => (Len(sent) = 2 /\ sent[2].cmd.cmd = 4 /\ epc = "done")

\* a bitstream of 8129 bytes, announced as 3 blocks, went out as blocks of
\* 4064, 4064 and 1 bytes and the call returned
C40_Witness ==
    /\ call = "programDevice"
    /\ BitLen = 8129
    /\ epc = "done"
    /\ EveryAnswerOk
    /\ sent[1].cmd.blockCount = 3
    /\ Len(BlocksSent) = 3
    /\ BlocksSent[3].cmd.blockSz = 1
    /\ out = Returns(TRUE)

====
